---- MODULE Spec2Model ----
(***************************************************************************)
(* libreoffice-rest: the conversion dispatcher of src/libreoffice.rs.      *)
(*                                                                         *)
(* Concurrent convert requests run as tasks of a multi-threaded runtime;   *)
(* every `.await` of convert_libreoffice_async is a point where a task     *)
(* may be suspended, resumed, or dropped (cancelled).  The tokio mutex,    *)
(* the per-request temp directory, the LibreOffice child process and the   *)
(* value returned to the caller are the state.  Bytes and characters are   *)
(* numbers 0..255; texts and byte strings are sequences of them.           *)
(*                                                                         *)
(* SpecRoutes is the POST /convert handler of src/routes/convert.rs, from  *)
(* the multipart fields to the response; SpecOffice is src/libreofficekit: *)
(* Office::new on several threads, the handles and documents they hold,    *)
(* and the engine's error channel.                                         *)
(*                                                                         *)
(* SpecFair is the dispatcher under the runtime's scheduling; SpecAdmission*)
(* is the mutex alone, with the order of arrival and admission on record.  *)
(* SpecClassify, SpecCompare, SpecUrl and SpecInstall apply the pure       *)
(* functions of detect_filetype.rs, ProductVersion, DocUrl and             *)
(* Office::find_install_path to arguments drawn at the start.              *)
(* SpecDocument is what the holders of loaded documents can do with them.  *)
(***************************************************************************)
EXTENDS Integers, Sequences, FiniteSets, TLC

\* ------------------------------------------------------------------ bounds

\* Number of concurrent convert requests.
NumReqs == 2

\* Longest stderr, in fragments, that the error-analysis specification tries.
MaxFrags == 2

Reqs == 1..NumReqs

\* Number of threads that call Office::new.
NumCallers == 2

\* Most clones of one Office a caller holds at a time.
MaxHandles == 2

Callers == 1..NumCallers

\* ------------------------------------------------------- sequence helpers

StartsWith(s, p) == Len(s) >= Len(p) /\ SubSeq(s, 1, Len(p)) = p

Contains(s, p) ==
    \E i \in 1..(Len(s) - Len(p) + 1) : SubSeq(s, i, i + Len(p) - 1) = p

\* Variant: the slice is not cut.
MutTake(s, n) == s

Take(s, n) == IF Len(s) <= n THEN s ELSE SubSeq(s, 1, n)

Min(a, b) == IF a <= b THEN a ELSE b

\* ------------------------------------------- detect_filetype.rs: classifier

\* content.get(..1024): the prefix the ZIP, OLE2 and text rules look at.
PrefixLen == 1024

\* .take(256) / content.len().min(256) of is_likely_text.
TextSample == 256

SigPdf  == <<37,80,68,70,45>>                   \* %PDF-
SigRtf  == <<123,92,114,116,102,49>>            \* {\rtf1
SigZip1 == <<80,75,3,4>>                        \* PK\x03\x04
SigZip2 == <<80,75,5,6>>                        \* PK\x05\x06
SigOle2 == <<208,207,17,224,161,177,26,225>>    \* D0 CF 11 E0 A1 B1 1A E1

MarkWordDir  == <<119,111,114,100,47>>          \* word/
MarkPptDir   == <<112,112,116,47>>              \* ppt/
MarkXlDir    == <<120,108,47>>                  \* xl/
\* application/vnd.openxmlformats-officedocument.
OoxmlMime    == <<97,112,112,108,105,99,97,116,105,111,110,47,118,110,100,46,
                  111,112,101,110,120,109,108,102,111,114,109,97,116,115,45,
                  111,102,102,105,99,101,100,111,99,117,109,101,110,116,46>>
MarkWordMime == OoxmlMime \o <<119,111,114,100,112,114,111,99,101,115,115,105,110,103,109,108>>
MarkPptMime  == OoxmlMime \o <<112,114,101,115,101,110,116,97,116,105,111,110,109,108>>
MarkXlMime   == OoxmlMime \o <<115,112,114,101,97,100,115,104,101,101,116,109,108>>
\* application/vnd.oasis.opendocument
MarkOdfMime  == <<97,112,112,108,105,99,97,116,105,111,110,47,118,110,100,46,
                  111,97,115,105,115,46,111,112,101,110,100,111,99,117,109,101,110,116>>
\* [Content_Types].xml
MarkContentTypes == <<91,67,111,110,116,101,110,116,95,84,121,112,101,115,93,46,120,109,108>>
MarkOleWord1 == <<77,105,99,114,111,115,111,102,116,32,79,102,102,105,99,101,32,87,111,114,100>>
MarkOleWord2 == <<87,111,114,100,46,68,111,99,117,109,101,110,116>>
MarkOlePpt1  == <<77,105,99,114,111,115,111,102,116,32,79,102,102,105,99,101,32,
                  80,111,119,101,114,80,111,105,110,116>>
MarkOlePpt2  == <<80,111,119,101,114,80,111,105,110,116,32,68,111,99,117,109,101,110,116>>
MarkOleXl1   == <<77,105,99,114,111,115,111,102,116,32,69,120,99,101,108>>
MarkOleXl2   == <<87,111,114,107,98,111,111,107>>

\* String::from_utf8_lossy keeps every ASCII byte in place and replaces only
\* invalid sequences, so an ASCII marker is a substring of the lossy text
\* exactly when it is a substring of the bytes.
\* Variant: the presentation markers are looked for before the text-document
\* markers.
MutDetectZipBasedFormat(content) ==
    IF Contains(content, MarkPptDir) \/ Contains(content, MarkPptMime) THEN "PowerPoint"
    ELSE IF Contains(content, MarkWordDir) \/ Contains(content, MarkWordMime) THEN "Word"
    ELSE IF Contains(content, MarkXlDir) \/ Contains(content, MarkXlMime) THEN "Excel"
    ELSE IF Contains(content, MarkOdfMime) THEN "OpenDocument"
    ELSE IF Contains(content, MarkContentTypes) THEN "Word"
    ELSE "Unknown"

detect_zip_based_format(content) ==
    IF Contains(content, MarkWordDir) \/ Contains(content, MarkWordMime) THEN "Word"
    ELSE IF Contains(content, MarkPptDir) \/ Contains(content, MarkPptMime) THEN "PowerPoint"
    ELSE IF Contains(content, MarkXlDir) \/ Contains(content, MarkXlMime) THEN "Excel"
    ELSE IF Contains(content, MarkOdfMime) THEN "OpenDocument"
    ELSE IF Contains(content, MarkContentTypes) THEN "Word"
    ELSE "Unknown"

detect_ole2_format(content) ==
    IF Contains(content, MarkOleWord1) \/ Contains(content, MarkOleWord2) THEN "Word"
    ELSE IF Contains(content, MarkOlePpt1) \/ Contains(content, MarkOlePpt2) THEN "PowerPoint"
    ELSE IF Contains(content, MarkOleXl1) \/ Contains(content, MarkOleXl2) THEN "Excel"
    ELSE "Word"

\* b.is_ascii_graphic() || b.is_ascii_whitespace() || b >= 0x80
\* (is_ascii_whitespace: space, \t, \n, form feed, \r; not vertical tab).
IsTextByte(b) ==
    \/ (b >= 33 /\ b <= 126)
    \/ b \in {32, 9, 10, 12, 13}
    \/ b >= 128

\* printable_count as f32 / total_checked as f32 > 0.9: with at most 256
\* bytes the quotient is either the float nearest to 9/10, which is the
\* constant 0.9f32 itself, or differs from it by far more than one rounding
\* step, so the comparison is the exact one 10 * printable > 9 * total.
is_likely_text(content) ==
    LET total_checked == Min(Len(content), TextSample)
        printable_count == Cardinality({i \in 1..total_checked : IsTextByte(content[i])})
    IN  IF total_checked = 0 THEN FALSE
        ELSE 10 * printable_count > 9 * total_checked

\* Variant: a ZIP container in which no marker is found goes on to the text
\* heuristic.
MutDetectOpenofficeFileType(content) ==
    LET content_slice == Take(content, PrefixLen) IN
    IF Len(content) = 0 THEN "Unknown"
    ELSE IF StartsWith(content, SigPdf) THEN "Pdf"
    ELSE IF StartsWith(content, SigRtf) THEN "RichText"
    ELSE IF /\ StartsWith(content, SigZip1) \/ StartsWith(content, SigZip2)
            /\ detect_zip_based_format(content_slice) # "Unknown"
         THEN detect_zip_based_format(content_slice)
    ELSE IF StartsWith(content, SigOle2) THEN detect_ole2_format(content_slice)
    ELSE IF is_likely_text(content_slice) THEN "PlainText"
    ELSE "Unknown"

detect_openoffice_file_type(content) ==
    LET content_slice == Take(content, PrefixLen) IN
    IF Len(content) = 0 THEN "Unknown"
    ELSE IF StartsWith(content, SigPdf) THEN "Pdf"
    ELSE IF StartsWith(content, SigRtf) THEN "RichText"
    ELSE IF StartsWith(content, SigZip1) \/ StartsWith(content, SigZip2)
         THEN detect_zip_based_format(content_slice)
    ELSE IF StartsWith(content, SigOle2) THEN detect_ole2_format(content_slice)
    ELSE IF is_likely_text(content_slice) THEN "PlainText"
    ELSE "Unknown"

\* Variant: the empty slice gets an answer that is no variant of FileType.
MutDetectFileTypeFromBytes(bytes) ==
    IF Len(bytes) = 0 THEN "Empty" ELSE detect_openoffice_file_type(bytes)

detect_file_type_from_bytes(bytes) == detect_openoffice_file_type(bytes)

\* ------------------------------------------------ error.rs: LibreOfficeError

NoText == << >>

\* One value of Result<Vec<u8>, LibreOfficeError>.  tag is "Ok", a variant of
\* LibreOfficeError, or "none" while the call has not returned.  The fields a
\* variant does not carry stay empty.
MkResult(tag, from, to, msg, stderr, stdout, bytes) ==
    [tag |-> tag, from |-> from, to |-> to, msg |-> msg,
     stderr |-> stderr, stdout |-> stdout, bytes |-> bytes]

NoResult == MkResult("none", "", "", "", NoText, NoText, << >>)
Ok(bytes) == MkResult("Ok", "", "", "", NoText, NoText, bytes)
Io == MkResult("Io", "", "", "", NoText, NoText, << >>)
Timeout == MkResult("Timeout", "", "", "", NoText, NoText, << >>)
OutputNotFound == MkResult("OutputNotFound", "", "", "", NoText, NoText, << >>)
PasswordProtected == MkResult("PasswordProtected", "", "", "", NoText, NoText, << >>)
EmptyOrInvalidInput == MkResult("EmptyOrInvalidInput", "", "", "", NoText, NoText, << >>)
UnsupportedConversion(from, to) ==
    MkResult("UnsupportedConversion", from, to, "", NoText, NoText, << >>)
CorruptedInput(msg) == MkResult("CorruptedInput", "", "", msg, NoText, NoText, << >>)
\* format!("LibreOffice conversion failed. stderr: {}, stdout: {}", stderr, stdout)
ConversionFailed(stderr, stdout) ==
    MkResult("ConversionFailed", "", "", "LibreOffice conversion failed",
             stderr, stdout, << >>)

\* ---------------------------------- libreoffice.rs: analyze_libreoffice_error

KwPassword     == <<112,97,115,115,119,111,114,100>>                  \* password
KwEncrypted    == <<101,110,99,114,121,112,116,101,100>>              \* encrypted
KwFormat       == <<102,111,114,109,97,116>>                          \* format
KwNotSupported == <<110,111,116,32,115,117,112,112,111,114,116,101,100>> \* not supported
KwCorrupt      == <<99,111,114,114,117,112,116>>                      \* corrupt
KwDamaged      == <<100,97,109,97,103,101,100>>                       \* damaged
KwInvalid      == <<105,110,118,97,108,105,100>>                      \* invalid
KwParseError   == <<112,97,114,115,101,32,101,114,114,111,114>>       \* parse error
KwBadFile      == <<98,97,100,32,102,105,108,101>>                    \* bad file
KwEmpty        == <<101,109,112,116,121>>                             \* empty
KwNoContent    == <<110,111,32,99,111,110,116,101,110,116>>           \* no content
KwZeroBytes    == <<122,101,114,111,32,98,121,116,101,115>>           \* zero bytes
KwFilter       == <<102,105,108,116,101,114>>                         \* filter
KwNotFound     == <<110,111,116,32,102,111,117,110,100>>              \* not found

\* str::to_lowercase on ASCII text: A..Z map to a..z, every other character
\* is kept.
ToLowerChar(c) == IF c >= 65 /\ c <= 90 THEN c + 32 ELSE c
to_lowercase(s) == [i \in 1..Len(s) |-> ToLowerChar(s[i])]

\* Variant: the combined text is searched as printed, without to_lowercase.
MutCombinedOutput(stderr, stdout) == stderr \o <<32>> \o stdout

\* format!("{} {}", stderr, stdout).to_lowercase()
CombinedOutput(stderr, stdout) == to_lowercase(stderr \o <<32>> \o stdout)

analyze_libreoffice_error(stderr, stdout, from, to) ==
    LET combined_output == CombinedOutput(stderr, stdout) IN
    IF Contains(combined_output, KwPassword) \/ Contains(combined_output, KwEncrypted)
    THEN PasswordProtected
    ELSE IF Contains(combined_output, KwFormat) /\ Contains(combined_output, KwNotSupported)
    THEN UnsupportedConversion(from, to)
    ELSE IF \/ Contains(combined_output, KwCorrupt)
            \/ Contains(combined_output, KwDamaged)
            \/ Contains(combined_output, KwInvalid)
            \/ Contains(combined_output, KwParseError)
            \/ Contains(combined_output, KwBadFile)
    THEN CorruptedInput("File appears to be corrupted or in an invalid format")
    ELSE IF \/ Contains(combined_output, KwEmpty)
            \/ Contains(combined_output, KwNoContent)
            \/ Contains(combined_output, KwZeroBytes)
    THEN EmptyOrInvalidInput
    ELSE IF Contains(combined_output, KwFilter) /\ Contains(combined_output, KwNotFound)
    THEN UnsupportedConversion(from, to)
    ELSE ConversionFailed(stderr, stdout)

\* ------------------------------------------------------------------ state

VARIABLES
    pc,             \* where each request's future stands
    input,          \* the arguments of each convert_libreoffice call
    lock_permits,   \* LIBREOFFICE_LOCK: permits the tokio mutex has free
    lock_waiters,   \* LIBREOFFICE_LOCK: tasks queued in lock().await, oldest first
    lock_granted,   \* queued tasks the permit was handed to, not yet resumed
    lock_asked,     \* requests that have called lock() (instrumentation)
    tmp,            \* each request's TempDir: "none", "exists" or "removed"
    files,          \* contents of each request's temp directory: name -> bytes
    child,          \* each request's libreoffice process: "none", "running", "exited"
    child_output,   \* what .output() collected from the child: status, stderr, stdout
    outdir_at_exit, \* listing of the directory when the child exited (instrumentation)
    read_path,      \* the last path handed to tokio::fs::read
    result,         \* the value convert_libreoffice returned
    analysis        \* arguments and result of one analyze_libreoffice_error call

\* routes/convert.rs: one POST /convert, from its multipart fields to the
\* response.
VARIABLES
    http            \* the request's fields, where the handler stands, the response

routeVars == <<http>>

\* libreofficekit: the process-wide statics, each caller's Office::new, the
\* handles it holds, and the engine's error channel.
VARIABLES
    GLOBAL_OFFICE_LOCK, \* sys.rs: the AtomicBool that gates instance creation
    LOK_CONTAINER,      \* sys.rs: the OnceCell of the loaded library
    office_pc,          \* where each caller's Office::new stands
    office_path,        \* the install path each caller passed
    office_result,      \* what each caller's Office::new returned
    office_handles,     \* clones of the Office each caller holds (Rc strong count)
    office_raw,         \* each caller's OfficeRaw: "none", "alive" or "dropped"
    document,           \* each caller's Document: "none", "live" or "dropped"
    doc_raw,            \* each caller's DocumentRaw: its pointer, the destroy calls made on it
    last_drop,          \* the last drop of an Office handle (instrumentation)
    lok_error,          \* the engine's error channel (what getError returns)
    last_call           \* the last value-returning engine call (instrumentation)

handleVars == <<doc_raw, last_drop>>

kitVars == <<GLOBAL_OFFICE_LOCK, LOK_CONTAINER, office_pc, office_path, office_result,
             office_handles, office_raw, document, lok_error, last_call, handleVars>>

\* The pure functions of the repository, each applied to one argument drawn
\* at the start: the classifier, the version ordering, the document URL.
VARIABLES
    classified,         \* detect_filetype.rs: two inputs and the tags returned
    compared,           \* libreofficekit/mod.rs: two version strings, parsed and compared
    doc_url,            \* libreofficekit/urls.rs: a path and what DocUrl::from_path returned
    install             \* libreofficekit/mod.rs: a file system and what find_install_path returned

pureVars == <<classified, compared, doc_url, install>>

\* The order in which the calls reached lock() and the order in which they
\* entered the locked region (history, kept by the admission specification).
VARIABLES
    lock_order,         \* requests in the order of their first poll of lock().await
    admit_order         \* requests in the order in which they got the MutexGuard

orderVars == <<lock_order, admit_order>>

dispatcherVars == <<pc, input, lock_permits, lock_waiters, lock_granted, lock_asked,
                    tmp, files, child, child_output, outdir_at_exit, read_path, result>>

vars == <<pc, input, lock_permits, lock_waiters, lock_granted, lock_asked,
          tmp, files, child, child_output, outdir_at_exit, read_path, result, analysis,
          routeVars, kitVars, pureVars, orderVars>>

\* ------------------------------------------------------ inputs of the model

TxtHello    == <<104,105,10>>                   \* "hi\n": plain text
BinaryNoise == <<0,1,2,3,255,254,253,252>>      \* binary noise (test_binary_rejection)

InputSamples == {TxtHello, BinaryNoise, << >>}
InputFormats == {"txt"}
OutputFormats == {"txt", "pdf"}

\* A file name is <<stem, extension>>: format!("document.{}", ext) and
\* Path::extension of the names the model uses.
DocumentName(ext) == <<"document", ext>>
Extension(name) == name[2]

EmptyDir == << >>
NoName == <<"", "">>
NoInput == [bytes |-> << >>, from |-> "", to |-> ""]
NoOutput == [status |-> -1, stderr |-> NoText, stdout |-> NoText]

\* What a child may print: nothing, the S4 stub's message, and a message
\* whose keyword is split between stderr and stdout.
TxtPasswordRequired ==                          \* "Document Password required"
    <<68,111,99,117,109,101,110,116,32,80,97,115,115,119,111,114,100,32,
      114,101,113,117,105,114,101,100>>
TxtParse == <<112,97,114,115,101>>              \* "parse"
TxtErrorAt == <<101,114,114,111,114,32,97,116>> \* "error at"
ChildTexts == { <<NoText, NoText>>, <<TxtPasswordRequired, NoText>>, <<TxtParse, TxtErrorAt>> }

\* What a child may leave in the directory, and the bytes it writes there.
ChildData(name) ==
    IF name = <<"document", "pdf">> THEN SigPdf \o <<49>>
    ELSE IF name = <<"out", "pdf">> THEN SigPdf \o <<50>>
    ELSE IF name = <<"alt", "pdf">> THEN SigPdf \o <<51>>
    ELSE <<111,117,116>>
ChildWrites ==
    { {}, {<<"document", "pdf">>}, {<<"out", "pdf">>},
      {<<"out", "pdf">>, <<"alt", "pdf">>}, {<<"document", "txt">>} }

\* The ways a child may end: a clean exit that leaves any of the file sets
\* (once with a message on stderr), and a failure with any of the messages,
\* with or without a document.pdf left behind.
ChildOutcomes ==
    { [status |-> 0, texts |-> <<NoText, NoText>>, written |-> w] : w \in ChildWrites }
    \cup { [status |-> 0, texts |-> <<TxtPasswordRequired, NoText>>,
            written |-> {<<"document", "pdf">>}] }
    \cup { [status |-> 1, texts |-> t, written |-> w] :
            t \in ChildTexts, w \in { {}, {<<"document", "pdf">>} } }

\* ------------------------------------------------------------------- Init

\* Option<Vec<u8>> and Option<String> of extract_multipart_data.
NoBytes == [some |-> FALSE, val |-> << >>]
NoString == [some |-> FALSE, val |-> ""]
SomeOf(v) == [some |-> TRUE, val |-> v]

\* A Response<Body>: the status, the message as its format string and the
\* error whose fields fill it, and for a success the bytes and the filename of
\* the Content-Disposition header.
NoResponse == [status |-> 0, format |-> "", args |-> NoResult, bytes |-> << >>,
               filename |-> NoName]

\* No request is at the route.
NoHttp == [stage |-> "none", file |-> NoBytes, input_format |-> NoString,
           output_format |-> NoString, broken |-> "", outcome |-> NoResult,
           response |-> NoResponse]

NoOfficeResult == [tag |-> "none", saw |-> FALSE, lock_after |-> FALSE]
NoCall == [name |-> "none", tag |-> "none", error |-> "", read |-> FALSE]

\* No Office handle was dropped: else the caller, the handles it has left and
\* the flag as the drop left it.
NoDrop == [caller |-> 0, left |-> 0, flag |-> FALSE]

\* No DocumentRaw: no pointer, no destroy call made.
NoDocumentRaw == [this |-> "null", destroys |-> 0]

\* The statics as the process starts: the flag false, no library loaded, no
\* Office created.
InitKit ==
    /\ GLOBAL_OFFICE_LOCK = FALSE
    /\ LOK_CONTAINER = "unset"
    /\ office_pc = [c \in Callers |-> "idle"]
    /\ office_path = [c \in Callers |-> ""]
    /\ office_result = [c \in Callers |-> NoOfficeResult]
    /\ office_handles = [c \in Callers |-> 0]
    /\ office_raw = [c \in Callers |-> "none"]
    /\ document = [c \in Callers |-> "none"]
    /\ doc_raw = [c \in Callers |-> NoDocumentRaw]
    /\ last_drop = NoDrop
    /\ lok_error = ""
    /\ last_call = NoCall

\* No pure function has been called.
NoClassified == [content |-> << >>, twin |-> << >>, tag |-> "none", twin_tag |-> "none"]
NoCompared == [left |-> << >>, right |-> << >>, ordering |-> "none", reverse |-> "none"]
NoDocUrl == [path |-> << >>, cwd |-> TRUE, result |-> [tag |-> "none", url |-> << >>]]
NoInstall == [env |-> "unset", known |-> << >>, opt |-> [state |-> "missing", entries |-> << >>],
              called |-> FALSE, result |-> [some |-> FALSE, from |-> "", dir |-> << >>]]

InitOrder ==
    /\ lock_order = << >>
    /\ admit_order = << >>

InitPure ==
    /\ classified = NoClassified
    /\ compared = NoCompared
    /\ doc_url = NoDocUrl
    /\ install = NoInstall

NoAnalysis == [stderr |-> NoText, stdout |-> NoText, from |-> "", to |-> "",
               error |-> NoResult]

\* No request has arrived, the mutex is free, nothing is on disk.
InitDispatcher ==
    /\ pc = [r \in Reqs |-> "idle"]
    /\ input = [r \in Reqs |-> NoInput]
    /\ lock_permits = 1
    /\ lock_waiters = << >>
    /\ lock_granted = {}
    /\ lock_asked = [r \in Reqs |-> FALSE]
    /\ tmp = [r \in Reqs |-> "none"]
    /\ files = [r \in Reqs |-> EmptyDir]
    /\ child = [r \in Reqs |-> "none"]
    /\ child_output = [r \in Reqs |-> NoOutput]
    /\ outdir_at_exit = [r \in Reqs |-> EmptyDir]
    /\ read_path = [r \in Reqs |-> NoName]
    /\ result = [r \in Reqs |-> NoResult]

Init ==
    /\ InitDispatcher
    /\ analysis = NoAnalysis
    /\ http = NoHttp
    /\ InitKit
    /\ InitPure
    /\ InitOrder

\* The positions at which a request holds the MutexGuard `_lock`.
LockedPcs == {"locked", "writing", "running", "scanning", "reading", "unlock"}

\* The positions at which the future is suspended in an `.await`.
AwaitPcs == {"waiting", "writing", "running", "scanning", "reading"}

\* ------------------------------------------- LIBREOFFICE_LOCK (tokio Mutex)

\* Variant: the permit is handed to the newest queued waiter.
MutReleaseLockFrom(g) ==
    IF lock_waiters # << >>
    THEN /\ lock_granted' = g \cup {lock_waiters[Len(lock_waiters)]}
         /\ lock_waiters' = SubSeq(lock_waiters, 1, Len(lock_waiters) - 1)
         /\ lock_permits' = lock_permits
    ELSE /\ lock_permits' = lock_permits + 1
         /\ lock_granted' = g
         /\ lock_waiters' = lock_waiters

\* Drop of a MutexGuard (or of a cancelled waiter that had been handed the
\* permit): the semaphore gives the permit to the oldest queued waiter, and
\* only with no waiter queued does the permit become free again.  g is the
\* set of granted waiters that remains.
ReleaseLockFrom(g) ==
    IF lock_waiters # << >>
    THEN /\ lock_granted' = g \cup {Head(lock_waiters)}
         /\ lock_waiters' = Tail(lock_waiters)
         /\ lock_permits' = lock_permits
    ELSE /\ lock_permits' = lock_permits + 1
         /\ lock_granted' = g
         /\ lock_waiters' = lock_waiters

ReleaseLock == ReleaseLockFrom(lock_granted)

RemoveWaiter(q, r) == SelectSeq(q, LAMBDA x : x # r)

\* ------------------------------------------------ scope exit of one request

\* Variant: the TempDir is turned into a plain path (kept) and nothing is
\* removed at scope exit.
MutDropTempDir(r) ==
    /\ tmp' = tmp
    /\ files' = files

\* Drop of `_temp_dir`: tempfile removes the directory and all it holds.
DropTempDir(r) ==
    /\ tmp' = [tmp EXCEPT ![r] = IF @ = "exists" THEN "removed" ELSE @]
    /\ files' = [files EXCEPT ![r] = EmptyDir]

\* `return res` inside the locked region: the value is fixed, then the locals
\* are dropped in reverse order of declaration: the command future (the child
\* is left alone: kill_on_drop is not set), `_temp_dir`, and last `_lock`,
\* which is the step Unlock.  The path being read is a local too; what
\* .output() collected from the child stays on record with the returned value.
DropLocals(r) ==
    /\ DropTempDir(r)
    /\ read_path' = [read_path EXCEPT ![r] = NoName]
    /\ UNCHANGED child_output

\* Variant: `_temp_dir` is declared before `_lock`, so it is dropped after the
\* guard: the directory is still there when the mutex is released.
MutFinish(r, res) ==
    /\ result' = [result EXCEPT ![r] = res]
    /\ pc' = [pc EXCEPT ![r] = "unlock"]
    /\ tmp' = tmp
    /\ files' = files
    /\ read_path' = [read_path EXCEPT ![r] = NoName]
    /\ UNCHANGED child_output

Finish(r, res) ==
    /\ result' = [result EXCEPT ![r] = res]
    /\ pc' = [pc EXCEPT ![r] = "unlock"]
    /\ DropLocals(r)

\* ---------------------------------------------------------------- actions

\* Variant: the pre-flight classification is skipped and every request goes
\* on to convert_libreoffice_async.
MutConvertLibreoffice(r) ==
    /\ pc[r] = "idle"
    /\ \E bytes \in InputSamples, from \in InputFormats, to \in OutputFormats :
        /\ input' = [input EXCEPT ![r] = [bytes |-> bytes, from |-> from, to |-> to]]
        /\ pc' = [pc EXCEPT ![r] = "lock"]
    /\ UNCHANGED <<lock_permits, lock_waiters, lock_granted, lock_asked, tmp, files,
                   child, child_output, outdir_at_exit, read_path, result, analysis, routeVars, kitVars, pureVars, orderVars>>

\* convert_libreoffice up to the call of convert_libreoffice_async.
convert_libreoffice(r) ==
    /\ pc[r] = "idle"
    /\ \E bytes \in InputSamples, from \in InputFormats, to \in OutputFormats :
        /\ input' = [input EXCEPT ![r] = [bytes |-> bytes, from |-> from, to |-> to]]
        /\ IF detect_file_type_from_bytes(bytes) = "Unknown"
           THEN /\ result' = [result EXCEPT ![r] = UnsupportedConversion(from, to)]
                /\ pc' = [pc EXCEPT ![r] = "done"]
           ELSE /\ pc' = [pc EXCEPT ![r] = "lock"]
                /\ UNCHANGED result
    /\ UNCHANGED <<lock_permits, lock_waiters, lock_granted, lock_asked, tmp, files,
                   child, child_output, outdir_at_exit, read_path, analysis, routeVars, kitVars, pureVars, orderVars>>

\* Variant: every call locks a mutex of its own (Mutex::new(()) in place of
\* the static), so the lock is always free.
MutLock(r) ==
    /\ pc[r] = "lock"
    /\ lock_asked' = [lock_asked EXCEPT ![r] = TRUE]
    /\ pc' = [pc EXCEPT ![r] = "locked"]
    /\ UNCHANGED <<input, lock_permits, lock_waiters, lock_granted, tmp, files, child,
                   child_output, outdir_at_exit, read_path, result, analysis, routeVars, kitVars, pureVars, orderVars>>

\* get_libreoffice_lock().lock().await, first poll: take the free permit or
\* queue behind the earlier waiters.
LockStep(r) ==
    /\ pc[r] = "lock"
    /\ lock_asked' = [lock_asked EXCEPT ![r] = TRUE]
    /\ IF lock_permits > 0
       THEN /\ lock_permits' = lock_permits - 1
            /\ pc' = [pc EXCEPT ![r] = "locked"]
            /\ UNCHANGED lock_waiters
       ELSE /\ lock_waiters' = Append(lock_waiters, r)
            /\ pc' = [pc EXCEPT ![r] = "waiting"]
            /\ UNCHANGED lock_permits
    /\ UNCHANGED <<input, lock_granted, tmp, files, child, child_output,
                   outdir_at_exit, read_path, result, analysis, routeVars, kitVars, pureVars>>

\* LockStep with the order history left alone.
Lock(r) == LockStep(r) /\ UNCHANGED orderVars

\* lock().await resumes in a waiter the permit was handed to.
LockGrantedStep(r) ==
    /\ pc[r] = "waiting"
    /\ r \in lock_granted
    /\ lock_granted' = lock_granted \ {r}
    /\ pc' = [pc EXCEPT ![r] = "locked"]
    /\ UNCHANGED <<input, lock_permits, lock_waiters, lock_asked, tmp, files, child,
                   child_output, outdir_at_exit, read_path, result, analysis, routeVars, kitVars, pureVars>>

\* LockGrantedStep with the order history left alone.
LockGranted(r) == LockGrantedStep(r) /\ UNCHANGED orderVars

\* temp_dir_with_files, then the call of tokio::fs::write.
CreateTempDir(r) ==
    /\ pc[r] = "locked"
    /\ \E created \in BOOLEAN :
        IF created
        THEN /\ tmp' = [tmp EXCEPT ![r] = "exists"]
             /\ files' = [files EXCEPT ![r] = EmptyDir]
             /\ pc' = [pc EXCEPT ![r] = "writing"]
             /\ UNCHANGED <<result, child_output, read_path>>
        ELSE Finish(r, Io)
    /\ UNCHANGED <<input, lock_permits, lock_waiters, lock_granted, lock_asked, child,
                   outdir_at_exit, analysis, routeVars, kitVars, pureVars, orderVars>>

\* tokio::fs::write(...).await returns; on success the command is spawned by
\* .output() and the task waits in timeout(...).await.  A spawn error is the
\* Ok(Err(e)) the first poll returns.
WriteInput(r) ==
    /\ pc[r] = "writing"
    /\ \E written \in BOOLEAN, spawned \in BOOLEAN :
        IF written /\ spawned
        THEN /\ files' = [files EXCEPT ![r] =
                    (DocumentName(input[r].from) :> input[r].bytes) @@ @]
             /\ child' = [child EXCEPT ![r] = "running"]
             /\ pc' = [pc EXCEPT ![r] = "running"]
             /\ UNCHANGED <<tmp, result, child_output, read_path>>
        ELSE /\ Finish(r, Io)
             /\ UNCHANGED child
    /\ UNCHANGED <<input, lock_permits, lock_waiters, lock_granted, lock_asked,
                   outdir_at_exit, analysis, routeVars, kitVars, pureVars, orderVars>>

\* The awaited child exits: it has written what it writes into --outdir and
\* its status, stderr and stdout are collected by .output().
ChildExit(r) ==
    /\ pc[r] = "running"
    /\ child[r] = "running"
    /\ \E outcome \in ChildOutcomes :
        LET listing == [n \in outcome.written |-> ChildData(n)] @@ files[r] IN
        /\ child' = [child EXCEPT ![r] = "exited"]
        /\ child_output' = [child_output EXCEPT ![r] =
                [status |-> outcome.status, stderr |-> outcome.texts[1],
                 stdout |-> outcome.texts[2]]]
        /\ files' = [files EXCEPT ![r] = listing]
        /\ outdir_at_exit' = [outdir_at_exit EXCEPT ![r] = listing]
    /\ UNCHANGED <<pc, input, lock_permits, lock_waiters, lock_granted, lock_asked,
                   tmp, read_path, result, analysis, routeVars, kitVars, pureVars, orderVars>>

\* A child whose future was dropped (timeout or cancellation) is not killed:
\* it runs on, with nobody reading it, until it exits by itself.  Its temp
\* directory is gone by then.
OrphanExit(r) ==
    /\ pc[r] # "running"
    /\ child[r] = "running"
    /\ child' = [child EXCEPT ![r] = "exited"]
    /\ UNCHANGED <<pc, input, lock_permits, lock_waiters, lock_granted, lock_asked,
                   tmp, files, child_output, outdir_at_exit, read_path, result, analysis, routeVars, kitVars, pureVars, orderVars>>

\* Variant: the exit status is not looked at; the output file is looked for
\* whatever the child's status.
MutProcessOutput(r) ==
    /\ pc[r] = "running"
    /\ child[r] = "exited"
    /\ IF DocumentName(input[r].to) \in DOMAIN files[r]
       THEN /\ pc' = [pc EXCEPT ![r] = "reading"]
            /\ read_path' = [read_path EXCEPT ![r] = DocumentName(input[r].to)]
       ELSE /\ pc' = [pc EXCEPT ![r] = "scanning"]
            /\ UNCHANGED read_path
    /\ UNCHANGED <<input, lock_permits, lock_waiters, lock_granted, lock_asked, tmp, files,
                   child, child_output, outdir_at_exit, result, analysis, routeVars, kitVars, pureVars, orderVars>>

\* timeout(60 s, ...).await returns Ok(Ok(output)): the status check and the
\* test expected_output.exists().
ProcessOutput(r) ==
    /\ pc[r] = "running"
    /\ child[r] = "exited"
    /\ LET output == child_output[r]
           from == input[r].from
           to == input[r].to
           expected_output == DocumentName(to)
       IN  IF output.status # 0
           THEN Finish(r, analyze_libreoffice_error(output.stderr, output.stdout, from, to))
           ELSE IF expected_output \in DOMAIN files[r]
           THEN /\ pc' = [pc EXCEPT ![r] = "reading"]
                /\ read_path' = [read_path EXCEPT ![r] = expected_output]
                /\ UNCHANGED <<tmp, files, result, child_output>>
           ELSE /\ pc' = [pc EXCEPT ![r] = "scanning"]
                /\ UNCHANGED <<tmp, files, result, read_path, child_output>>
    /\ UNCHANGED <<input, lock_permits, lock_waiters, lock_granted, lock_asked, child,
                   outdir_at_exit, analysis, routeVars, kitVars, pureVars, orderVars>>

\* Variant: the command is awaited without tokio::time::timeout, so no
\* deadline ever ends the wait.
MutTimeoutElapsed(r) ==
    /\ pc[r] = "running"
    /\ child[r] = "running"
    /\ FALSE
    /\ UNCHANGED vars

\* timeout(60 s, ...).await returns Err(Elapsed): the deadline passed with the
\* child still running.
TimeoutElapsed(r) ==
    /\ pc[r] = "running"
    /\ child[r] = "running"
    /\ Finish(r, Timeout)
    /\ UNCHANGED <<input, lock_permits, lock_waiters, lock_granted, lock_asked, child,
                   outdir_at_exit, analysis, routeVars, kitVars, pureVars, orderVars>>

\* Variant: the test files.is_empty() is inverted.
MutAnalyzeMissingOutputError(dir, listed, from, to) ==
    IF listed
    THEN IF DOMAIN dir # {}
         THEN CorruptedInput("No output files were generated - input file may be corrupted or invalid")
         ELSE UnsupportedConversion(from, to)
    ELSE OutputNotFound

\* listed: whether std::fs::read_dir could open the directory.
analyze_missing_output_error(dir, listed, from, to) ==
    IF listed
    THEN IF DOMAIN dir = {}
         THEN CorruptedInput("No output files were generated - input file may be corrupted or invalid")
         ELSE UnsupportedConversion(from, to)
    ELSE OutputNotFound

\* Variant: the scan takes the first entry whatever its extension.
MutScanCandidates(dir, to) == DOMAIN dir

\* The files a directory scan that stops at the first entry with the target
\* extension can stop at: read_dir yields the entries in no defined order.
ScanCandidates(dir, to) == {n \in DOMAIN dir : Extension(n) = to}

\* The scan of the output directory: tokio::fs::read_dir, the next_entry
\* loop, and the match on found_file.
ScanOutputDir(r) ==
    /\ pc[r] = "scanning"
    /\ \E scanned \in BOOLEAN, listed \in BOOLEAN :
        LET to == input[r].to
            found == ScanCandidates(files[r], to)
        IN  IF ~scanned
            THEN Finish(r, Io)
            ELSE IF found # {}
            THEN /\ \E path \in found : read_path' = [read_path EXCEPT ![r] = path]
                 /\ pc' = [pc EXCEPT ![r] = "reading"]
                 /\ UNCHANGED <<tmp, files, result, child_output>>
            ELSE Finish(r, analyze_missing_output_error(files[r], listed, input[r].from, to))
    /\ UNCHANGED <<input, lock_permits, lock_waiters, lock_granted, lock_asked, child,
                   outdir_at_exit, analysis, routeVars, kitVars, pureVars, orderVars>>

\* Variant: the staged input file is read back in place of the output file.
MutReadOutput(r) ==
    /\ pc[r] = "reading"
    /\ \E read \in BOOLEAN :
        IF read
        THEN Finish(r, Ok(files[r][DocumentName(input[r].from)]))
        ELSE Finish(r, Io)
    /\ UNCHANGED <<input, lock_permits, lock_waiters, lock_granted, lock_asked, child,
                   outdir_at_exit, analysis, routeVars, kitVars, pureVars, orderVars>>

\* tokio::fs::read(path).await returns.
ReadOutput(r) ==
    /\ pc[r] = "reading"
    /\ \E read \in BOOLEAN :
        IF read
        THEN Finish(r, Ok(files[r][read_path[r]]))
        ELSE Finish(r, Io)
    /\ UNCHANGED <<input, lock_permits, lock_waiters, lock_granted, lock_asked, child,
                   outdir_at_exit, analysis, routeVars, kitVars, pureVars, orderVars>>

\* The caller drops the request future while it is suspended.  A queued
\* waiter leaves the queue (or passes on the permit it was handed); inside the
\* locked region the locals are dropped as on a return, without a value, and
\* an output already collected is dropped with the future that held it.
CancelStep(r) ==
    /\ pc[r] \in AwaitPcs
    /\ IF pc[r] = "waiting"
       THEN /\ pc' = [pc EXCEPT ![r] = "cancelled"]
            /\ IF r \in lock_granted
               THEN ReleaseLockFrom(lock_granted \ {r})
               ELSE /\ lock_waiters' = RemoveWaiter(lock_waiters, r)
                    /\ UNCHANGED <<lock_permits, lock_granted>>
            /\ UNCHANGED <<tmp, files, child_output, read_path>>
       ELSE /\ pc' = [pc EXCEPT ![r] = "unlock"]
            /\ DropTempDir(r)
            /\ read_path' = [read_path EXCEPT ![r] = NoName]
            /\ child_output' = [child_output EXCEPT ![r] = NoOutput]
            /\ UNCHANGED <<lock_permits, lock_waiters, lock_granted>>
    /\ UNCHANGED <<input, lock_asked, child, outdir_at_exit, result, analysis, routeVars, kitVars, pureVars>>

\* CancelStep with the order history left alone.
Cancel(r) == CancelStep(r) /\ UNCHANGED orderVars

\* Drop of `_lock`, the last local: the mutex is released and the call is over.
UnlockStep(r) ==
    /\ pc[r] = "unlock"
    /\ ReleaseLock
    /\ pc' = [pc EXCEPT ![r] = IF result[r].tag = "none" THEN "cancelled" ELSE "done"]
    /\ UNCHANGED <<input, lock_asked, tmp, files, child, child_output, outdir_at_exit,
                   read_path, result, analysis, routeVars, kitVars, pureVars>>

\* UnlockStep with the order history left alone.
Unlock(r) == UnlockStep(r) /\ UNCHANGED orderVars

Next ==
    \E r \in Reqs :
        \/ convert_libreoffice(r)
        \/ Lock(r)
        \/ LockGranted(r)
        \/ CreateTempDir(r)
        \/ WriteInput(r)
        \/ ChildExit(r)
        \/ OrphanExit(r)
        \/ ProcessOutput(r)
        \/ TimeoutElapsed(r)
        \/ ScanOutputDir(r)
        \/ ReadOutput(r)
        \/ Cancel(r)
        \/ Unlock(r)

Spec == Init /\ [][Next]_vars

\* ------------------------------ analyze_libreoffice_error on bounded texts

\* The pieces a child's stderr is put together from, one per line: every
\* keyword of the function once, in varying case, and the first halves of two
\* keywords that hold a space.
StderrFragments ==
    { <<80,97,115,115,119,111,114,100>>,                  \* Password
      <<69,78,67,82,89,80,84,69,68>>,                     \* ENCRYPTED
      <<70,111,114,109,97,116>>,                          \* Format
      <<78,111,116,32,83,117,112,112,111,114,116,101,100>>, \* Not Supported
      <<67,111,114,114,117,112,116>>,                     \* Corrupt
      <<100,97,109,97,103,101,100>>,                      \* damaged
      <<73,78,86,65,76,73,68>>,                           \* INVALID
      <<80,97,114,115,101,32,69,114,114,111,114>>,        \* Parse Error
      <<98,97,100,32,102,105,108,101>>,                   \* bad file
      <<69,109,112,116,121>>,                             \* Empty
      <<110,111,32,99,111,110,116,101,110,116>>,          \* no content
      <<90,101,114,111,32,66,121,116,101,115>>,           \* Zero Bytes
      <<70,105,108,116,101,114>>,                         \* Filter
      <<110,111,116,32,102,111,117,110,100>>,             \* not found
      <<112,97,114,115,101>>,                             \* parse
      <<110,111,116>>,                                    \* not
      <<119,97,114,110,105,110,103>> }                    \* warning

\* What the child's stdout may be: empty, a keyword, or the second half of a
\* keyword that holds a space.
StdoutTexts ==
    { NoText,
      <<101,114,114,111,114>>,                            \* error
      <<115,117,112,112,111,114,116,101,100>>,            \* supported
      <<102,111,117,110,100>>,                            \* found
      <<70,79,82,77,65,84>>,                              \* FORMAT
      <<102,105,108,116,101,114>>,                        \* filter
      <<80,97,115,115,119,111,114,100>> }                 \* Password

RECURSIVE JoinLines(_)
JoinLines(fs) ==
    IF Len(fs) = 0 THEN NoText
    ELSE IF Len(fs) = 1 THEN fs[1]
    ELSE fs[1] \o <<10>> \o JoinLines(Tail(fs))

StderrTexts ==
    { JoinLines(fs) : fs \in UNION { [1..k -> StderrFragments] : k \in 0..MaxFrags } }

InitAnalyze ==
    /\ InitDispatcher
    /\ \E stderr \in StderrTexts, stdout \in StdoutTexts :
        analysis = [stderr |-> stderr, stdout |-> stdout, from |-> "txt", to |-> "pdf",
                    error |-> NoResult]
    /\ http = NoHttp
    /\ InitKit
    /\ InitPure
    /\ InitOrder

\* One call analyze_libreoffice_error(&stderr, &stdout, &from, &to).
Analyze ==
    /\ analysis.error.tag = "none"
    /\ analysis' = [analysis EXCEPT !.error =
            analyze_libreoffice_error(analysis.stderr, analysis.stdout,
                                      analysis.from, analysis.to)]
    /\ UNCHANGED <<dispatcherVars, routeVars, kitVars, pureVars, orderVars>>

NextAnalyze == Analyze

SpecAnalyze == InitAnalyze /\ [][NextAnalyze]_vars

\* ------------------------------------------------- routes/convert.rs

StatusOk == 200
BAD_REQUEST == 400
REQUEST_TIMEOUT == 408
INTERNAL_SERVER_ERROR == 500

\* create_error_response(status, message)
create_error_response(status, format, args) ==
    [status |-> status, format |-> format, args |-> args, bytes |-> << >>,
     filename |-> NoName]

\* Variant: the Timeout arm is missing, so Timeout falls to the default arm.
MutCreateConversionErrorResponse(e) ==
    IF e.tag \in {"CorruptedInput", "UnsupportedConversion", "PasswordProtected",
                  "EmptyOrInvalidInput"}
    THEN create_error_response(BAD_REQUEST, "", e)
    ELSE create_error_response(INTERNAL_SERVER_ERROR, "Conversion failed: {}", e)

\* routes/convert.rs: the match on the error of a failed conversion.
create_conversion_error_response(e) ==
    IF e.tag = "Timeout"
    THEN create_error_response(REQUEST_TIMEOUT, "Conversion timed out", NoResult)
    ELSE IF e.tag = "CorruptedInput"
    THEN create_error_response(BAD_REQUEST, "Invalid or corrupted input file: {}", e)
    ELSE IF e.tag = "UnsupportedConversion"
    THEN create_error_response(BAD_REQUEST, "Unsupported conversion from {} to {}", e)
    ELSE IF e.tag = "PasswordProtected"
    THEN create_error_response(BAD_REQUEST, "File is password protected", NoResult)
    ELSE IF e.tag = "EmptyOrInvalidInput"
    THEN create_error_response(BAD_REQUEST, "Input file is empty or invalid", NoResult)
    ELSE create_error_response(INTERNAL_SERVER_ERROR, "Conversion failed: {}", e)

\* Variant: the PasswordProtected arm is missing, so it falls to the default
\* arm.
MutResponseFrom(error) ==
    IF error.tag = "Timeout"
    THEN create_error_response(REQUEST_TIMEOUT, "Conversion timed out", NoResult)
    ELSE IF error.tag = "CorruptedInput"
    THEN create_error_response(BAD_REQUEST, "Invalid or corrupted input file: {}", error)
    ELSE IF error.tag = "UnsupportedConversion"
    THEN create_error_response(BAD_REQUEST, "Unsupported conversion from {} to {}", error)
    ELSE IF error.tag = "EmptyOrInvalidInput"
    THEN create_error_response(BAD_REQUEST, "Input file is empty or invalid", NoResult)
    ELSE create_error_response(INTERNAL_SERVER_ERROR, "Conversion failed: {}", error)

\* error.rs: impl From<LibreOfficeError> for Response<Body>, the same match
\* written a second time.
response_from(error) ==
    IF error.tag = "Timeout"
    THEN create_error_response(REQUEST_TIMEOUT, "Conversion timed out", NoResult)
    ELSE IF error.tag = "CorruptedInput"
    THEN create_error_response(BAD_REQUEST, "Invalid or corrupted input file: {}", error)
    ELSE IF error.tag = "UnsupportedConversion"
    THEN create_error_response(BAD_REQUEST, "Unsupported conversion from {} to {}", error)
    ELSE IF error.tag = "PasswordProtected"
    THEN create_error_response(BAD_REQUEST, "File is password protected", NoResult)
    ELSE IF error.tag = "EmptyOrInvalidInput"
    THEN create_error_response(BAD_REQUEST, "Input file is empty or invalid", NoResult)
    ELSE create_error_response(INTERNAL_SERVER_ERROR, "Conversion failed: {}", error)

\* create_success_response(converted_bytes, output_format)
create_success_response(converted_bytes, output_format) ==
    [status |-> StatusOk, format |-> "", args |-> NoResult, bytes |-> converted_bytes,
     filename |-> <<"converted", output_format>>]

\* The multipart bodies tried: each of the three fields present or absent,
\* and at most one field whose body cannot be read.
FileFields == {NoBytes, SomeOf(TxtHello), SomeOf(BinaryNoise)}
InputFormatFields == {NoString, SomeOf("txt"), SomeOf("docx")}
OutputFormatFields == {NoString, SomeOf("pdf"), SomeOf("txt")}
BrokenFields == {"", "file", "input_format", "output_format"}

\* What convert_libreoffice may return to handle_conversion.
ConvertOutcomes(from, to) ==
    { Ok(SigPdf \o <<49>>), Io, Timeout, OutputNotFound, PasswordProtected,
      EmptyOrInvalidInput, UnsupportedConversion(from, to),
      CorruptedInput("No output files were generated - input file may be corrupted or invalid"),
      ConversionFailed(TxtParse, NoText) }

InitRoutes ==
    /\ InitDispatcher
    /\ analysis = NoAnalysis
    /\ InitKit
    /\ InitPure
    /\ InitOrder
    /\ \E file \in FileFields, input_format \in InputFormatFields,
          output_format \in OutputFormatFields, broken \in BrokenFields :
        /\ (broken = "file" => file.some)
        /\ (broken = "input_format" => input_format.some)
        /\ (broken = "output_format" => output_format.some)
        /\ http = [NoHttp EXCEPT !.stage = "received", !.file = file,
                                 !.input_format = input_format,
                                 !.output_format = output_format, !.broken = broken]

Respond(response) ==
    http' = [http EXCEPT !.stage = "responded", !.response = response]

\* handler: extract_multipart_data, then the match on the three options, up
\* to the call of convert_libreoffice in handle_conversion.
handler ==
    /\ http.stage = "received"
    /\ IF http.broken = "file"
       THEN Respond(create_error_response(BAD_REQUEST, "Error reading uploaded file", NoResult))
       ELSE IF http.broken = "input_format"
       THEN Respond(create_error_response(BAD_REQUEST, "Error reading input_format", NoResult))
       ELSE IF http.broken = "output_format"
       THEN Respond(create_error_response(BAD_REQUEST, "Error reading output_format", NoResult))
       ELSE IF http.file.some /\ http.input_format.some /\ http.output_format.some
       THEN http' = [http EXCEPT !.stage = "converting"]
       ELSE Respond(create_error_response(BAD_REQUEST,
                "Missing required fields: file, input_format, output_format", NoResult))
    /\ UNCHANGED <<dispatcherVars, analysis, kitVars, pureVars, orderVars>>

\* handle_conversion: convert_libreoffice(bytes, input, output).await has
\* returned.
handle_conversion ==
    /\ http.stage = "converting"
    /\ \E outcome \in ConvertOutcomes(http.input_format.val, http.output_format.val) :
        http' = [http EXCEPT
            !.stage = "responded",
            !.outcome = outcome,
            !.response = IF outcome.tag = "Ok"
                         THEN create_success_response(outcome.bytes, http.output_format.val)
                         ELSE create_conversion_error_response(outcome)]
    /\ UNCHANGED <<dispatcherVars, analysis, kitVars, pureVars, orderVars>>

NextRoutes == handler \/ handle_conversion

SpecRoutes == InitRoutes /\ [][NextRoutes]_vars

\* ---------------------------------------------------- libreofficekit

\* The install paths tried: absolute, relative and resolvable, relative and
\* not resolvable by std::fs::canonicalize.
InstallPaths == {"absolute", "relative", "unresolvable"}

\* What the engine's error channel may hold after a C call: nothing, or a
\* message.
LokErrors == {"", "engine error"}

\* Office::new has returned to caller c.
ReturnOffice(c, tag, saw, lock_after) ==
    /\ office_pc' = [office_pc EXCEPT ![c] = "returned"]
    /\ office_result' = [office_result EXCEPT ![c] =
            [tag |-> tag, saw |-> saw, lock_after |-> lock_after]]

\* Variant: the flag is written without looking at the value it had.
MutOfficeNew(c) ==
    /\ office_pc[c] = "idle"
    /\ \E path \in InstallPaths : office_path' = [office_path EXCEPT ![c] = path]
    /\ GLOBAL_OFFICE_LOCK' = TRUE
    /\ office_pc' = [office_pc EXCEPT ![c] = "resolve"]
    /\ office_result' = [office_result EXCEPT ![c].saw = GLOBAL_OFFICE_LOCK]
    /\ UNCHANGED <<LOK_CONTAINER, office_handles, office_raw, document, lok_error,
                   last_call, handleVars, dispatcherVars, analysis, routeVars, pureVars, orderVars>>

\* Office::new, its first statement: GLOBAL_OFFICE_LOCK.swap(true), and the
\* return of InstanceLock when the flag was set.
Office_new(c) ==
    /\ office_pc[c] = "idle"
    /\ \E path \in InstallPaths : office_path' = [office_path EXCEPT ![c] = path]
    /\ GLOBAL_OFFICE_LOCK' = TRUE
    /\ IF GLOBAL_OFFICE_LOCK
       THEN ReturnOffice(c, "InstanceLock", TRUE, TRUE)
       ELSE /\ office_pc' = [office_pc EXCEPT ![c] = "resolve"]
            /\ office_result' = [office_result EXCEPT ![c].saw = FALSE]
    /\ UNCHANGED <<LOK_CONTAINER, office_handles, office_raw, document, lok_error,
                   last_call, handleVars, dispatcherVars, analysis, routeVars, pureVars, orderVars>>

\* Office::new, lines 45-51: a path that is not absolute is canonicalized,
\* and `?` returns InvalidPath when that fails.
Office_new_resolve(c) ==
    /\ office_pc[c] = "resolve"
    /\ IF office_path[c] = "unresolvable"
       THEN ReturnOffice(c, "InvalidPath", FALSE, GLOBAL_OFFICE_LOCK)
       ELSE /\ office_pc' = [office_pc EXCEPT ![c] = "init"]
            /\ UNCHANGED office_result
    /\ UNCHANGED <<GLOBAL_OFFICE_LOCK, LOK_CONTAINER, office_path, office_handles,
                   office_raw, document, lok_error, last_call, handleVars, dispatcherVars, analysis,
                   routeVars, pureVars, orderVars>>

\* What lok_open may come to: the library loaded with or without the hook
\* symbol, or one of its two errors.
LoadOutcomes == {"hook", "nohook", "LoadLibrary", "MissingLibrary"}

\* Office::new, lines 53-60: OfficeRaw::init (lok_init: the container, the
\* hook symbol, the path as a C string, the call of the hook) and the store
\* of false into the flag when init fails.
OfficeRaw_init(c) ==
    /\ office_pc[c] = "init"
    /\ \E load \in LoadOutcomes, path_ok \in BOOLEAN, lok_null \in BOOLEAN,
          error \in LokErrors :
        LET container == IF LOK_CONTAINER = "unset" THEN load ELSE LOK_CONTAINER
            failure == IF container \in {"LoadLibrary", "MissingLibrary"} THEN container
                       ELSE IF container = "nohook" THEN "MissingLibraryHook"
                       ELSE IF ~path_ok THEN "InvalidPath"
                       ELSE IF lok_null THEN "UnknownInit"
                       ELSE ""
        IN  /\ LOK_CONTAINER' = IF container \in {"hook", "nohook"} THEN container
                                 ELSE LOK_CONTAINER
            /\ IF failure # ""
               THEN /\ GLOBAL_OFFICE_LOCK' = FALSE
                    /\ ReturnOffice(c, failure, FALSE, FALSE)
                    /\ UNCHANGED <<office_raw, lok_error>>
               ELSE /\ office_raw' = [office_raw EXCEPT ![c] = "alive"]
                    /\ lok_error' = error
                    /\ office_pc' = [office_pc EXCEPT ![c] = "check"]
                    /\ UNCHANGED <<GLOBAL_OFFICE_LOCK, office_result>>
    /\ UNCHANGED <<office_path, office_handles, document, last_call, handleVars, dispatcherVars,
                   analysis, routeVars, pureVars, orderVars>>

\* Office::new, lines 62-67: raw.get_error(); with an error the raw instance
\* is dropped on the return (its Drop swaps the flag to false), without one
\* the Office is handed out.
Office_new_check(c) ==
    /\ office_pc[c] = "check"
    /\ IF lok_error # ""
       THEN /\ office_raw' = [office_raw EXCEPT ![c] = "dropped"]
            /\ GLOBAL_OFFICE_LOCK' = FALSE
            /\ ReturnOffice(c, "OfficeError", FALSE, FALSE)
            /\ UNCHANGED office_handles
       ELSE /\ office_handles' = [office_handles EXCEPT ![c] = 1]
            /\ ReturnOffice(c, "Ok", FALSE, GLOBAL_OFFICE_LOCK)
            /\ UNCHANGED <<office_raw, GLOBAL_OFFICE_LOCK>>
    /\ last_call' = [name |-> "init", tag |-> IF lok_error # "" THEN "OfficeError" ELSE "Ok",
                     error |-> lok_error, read |-> TRUE]
    /\ UNCHANGED <<LOK_CONTAINER, office_path, document, lok_error, handleVars, dispatcherVars,
                   analysis, routeVars, pureVars, orderVars>>


\* #[derive(Clone)] on Office: one more Rc to the same OfficeRaw.
Office_clone(c) ==
    /\ office_handles[c] >= 1
    /\ office_handles[c] < MaxHandles
    /\ office_handles' = [office_handles EXCEPT ![c] = @ + 1]
    /\ UNCHANGED <<GLOBAL_OFFICE_LOCK, LOK_CONTAINER, office_pc, office_path, office_result,
                   office_raw, document, lok_error, last_call, handleVars, dispatcherVars, analysis,
                   routeVars, pureVars, orderVars>>

\* Variant: the drop of the last handle leaves the flag as it is.
MutOfficeDrop(c) ==
    /\ office_handles[c] >= 1
    /\ office_handles' = [office_handles EXCEPT ![c] = @ - 1]
    /\ last_drop' = [caller |-> c, left |-> office_handles[c] - 1, flag |-> GLOBAL_OFFICE_LOCK]
    /\ IF office_handles[c] = 1
       THEN /\ office_raw' = [office_raw EXCEPT ![c] = "dropped"]
            /\ office_result' = [office_result EXCEPT ![c].lock_after = GLOBAL_OFFICE_LOCK]
       ELSE UNCHANGED <<office_raw, office_result>>
    /\ UNCHANGED <<GLOBAL_OFFICE_LOCK, LOK_CONTAINER, office_pc, office_path, document,
                   lok_error, last_call, doc_raw, dispatcherVars, analysis, routeVars, pureVars, orderVars>>

\* Variant: every drop of a handle swaps the flag to false, the last or not.
MutOfficeDropAny(c) ==
    /\ office_handles[c] >= 1
    /\ office_handles' = [office_handles EXCEPT ![c] = @ - 1]
    /\ GLOBAL_OFFICE_LOCK' = FALSE
    /\ IF office_handles[c] = 1
       THEN /\ office_raw' = [office_raw EXCEPT ![c] = "dropped"]
            /\ office_result' = [office_result EXCEPT ![c].lock_after = FALSE]
       ELSE UNCHANGED <<office_raw, office_result>>
    /\ last_drop' = [caller |-> c, left |-> office_handles[c] - 1, flag |-> FALSE]
    /\ UNCHANGED <<LOK_CONTAINER, office_pc, office_path, document, lok_error, last_call,
                   doc_raw, dispatcherVars, analysis, routeVars, pureVars, orderVars>>

\* Drop of an Office: the Rc count goes down, and with the last handle
\* OfficeRaw::drop runs: destroy is commented out, the flag is swapped to
\* false.  lock_after records the flag as that drop leaves it.
Office_drop(c) ==
    /\ office_handles[c] >= 1
    /\ office_handles' = [office_handles EXCEPT ![c] = @ - 1]
    /\ IF office_handles[c] = 1
       THEN /\ office_raw' = [office_raw EXCEPT ![c] = "dropped"]
            /\ GLOBAL_OFFICE_LOCK' = FALSE
            /\ office_result' = [office_result EXCEPT ![c].lock_after = FALSE]
       ELSE UNCHANGED <<office_raw, GLOBAL_OFFICE_LOCK, office_result>>
    /\ last_drop' = [caller |-> c, left |-> office_handles[c] - 1, flag |-> GLOBAL_OFFICE_LOCK']
    /\ UNCHANGED <<LOK_CONTAINER, office_pc, office_path, document, lok_error, last_call,
                   doc_raw, dispatcherVars, analysis, routeVars, pureVars, orderVars>>

\* An engine call that hands a value back through OfficeRaw: the C function
\* is called, then get_error, and an error string becomes OfficeError.
OfficeRawCall(name, error) ==
    /\ lok_error' = error
    /\ last_call' = [name |-> name, tag |-> IF error # "" THEN "OfficeError" ELSE "Ok",
                     error |-> error, read |-> TRUE]

\* Office::get_version_info -> OfficeRaw::get_version_info.
get_version_info(c) ==
    /\ office_handles[c] >= 1
    /\ \E error \in LokErrors : OfficeRawCall("getVersionInfo", error)
    /\ UNCHANGED <<GLOBAL_OFFICE_LOCK, LOK_CONTAINER, office_pc, office_path, office_result,
                   office_handles, office_raw, document, handleVars, dispatcherVars, analysis,
                   routeVars, pureVars, orderVars>>

\* Office::document_load -> OfficeRaw::document_load: the Document that comes
\* back holds the raw document pointer and nothing of the Office.
document_load(c) ==
    /\ office_handles[c] >= 1
    /\ document[c] = "none"
    /\ \E error \in LokErrors :
        /\ OfficeRawCall("documentLoad", error)
        /\ document' = [document EXCEPT ![c] = IF error = "" THEN "live" ELSE @]
        /\ doc_raw' = [doc_raw EXCEPT ![c].this = IF error = "" THEN "valid" ELSE @]
    /\ UNCHANGED <<GLOBAL_OFFICE_LOCK, LOK_CONTAINER, office_pc, office_path, office_result,
                   office_handles, office_raw, last_drop, dispatcherVars, analysis,
                   routeVars, pureVars, orderVars>>

\* An engine call through DocumentRaw: Ok(f(self.this, ..)), the value of the
\* C function as it is; DocumentRaw has no get_error to call.
DocumentRawCall(name, error) ==
    /\ lok_error' = error
    /\ last_call' = [name |-> name, tag |-> "Ok", error |-> error, read |-> FALSE]

\* Document::save_as -> DocumentRaw::save_as.
save_as(c) ==
    /\ document[c] = "live"
    /\ \E error \in LokErrors : DocumentRawCall("saveAs", error)
    /\ UNCHANGED <<GLOBAL_OFFICE_LOCK, LOK_CONTAINER, office_pc, office_path, office_result,
                   office_handles, office_raw, document, handleVars, dispatcherVars, analysis,
                   routeVars, pureVars, orderVars>>

\* Document::get_document_type -> DocumentRaw::get_document_type.
get_document_type(c) ==
    /\ document[c] = "live"
    /\ \E error \in LokErrors : DocumentRawCall("getDocumentType", error)
    /\ UNCHANGED <<GLOBAL_OFFICE_LOCK, LOK_CONTAINER, office_pc, office_path, office_result,
                   office_handles, office_raw, document, handleVars, dispatcherVars, analysis,
                   routeVars, pureVars, orderVars>>

\* Most calls of DocumentRaw::destroy made on one handle before its drop.
MaxDestroys == 2

\* The body of DocumentRaw::destroy: the class is read through self.this and
\* its destroy is called with self.this; self.this keeps its value.  On a
\* pointer whose document was destroyed before, the read is of freed memory:
\* the engine's destroy is called once more, or the process faults there.
DocumentRaw_destroy_body(c) ==
    IF doc_raw[c].this = "valid"
    THEN doc_raw' = [doc_raw EXCEPT ![c] = [this |-> "dangling", destroys |-> @.destroys + 1]]
    ELSE \E outcome \in {"called", "fault"} :
            doc_raw' = [doc_raw EXCEPT ![c] =
                            IF outcome = "called" THEN [@ EXCEPT !.destroys = @ + 1]
                            ELSE [@ EXCEPT !.this = "fault"]]

\* DocumentRaw::destroy called on a handle that is held on.
DocumentRaw_destroy(c) ==
    /\ document[c] = "live"
    /\ doc_raw[c].destroys < MaxDestroys
    /\ DocumentRaw_destroy_body(c)
    /\ document' = [document EXCEPT ![c] = IF doc_raw'[c].this = "fault" THEN "dropped" ELSE @]
    /\ UNCHANGED <<GLOBAL_OFFICE_LOCK, LOK_CONTAINER, office_pc, office_path, office_result,
                   office_handles, office_raw, lok_error, last_call, last_drop,
                   dispatcherVars, analysis, routeVars, pureVars, orderVars>>

\* Drop of a Document: DocumentRaw::drop calls destroy on the document.
Document_drop(c) ==
    /\ document[c] = "live"
    /\ DocumentRaw_destroy_body(c)
    /\ document' = [document EXCEPT ![c] = "dropped"]
    /\ UNCHANGED <<GLOBAL_OFFICE_LOCK, LOK_CONTAINER, office_pc, office_path, office_result,
                   office_handles, office_raw, lok_error, last_call, last_drop,
                   dispatcherVars, analysis, routeVars, pureVars, orderVars>>

InitOffice ==
    /\ InitDispatcher
    /\ analysis = NoAnalysis
    /\ http = NoHttp
    /\ InitKit
    /\ InitPure
    /\ InitOrder

NextOffice ==
    \E c \in Callers :
        \/ Office_new(c)
        \/ Office_new_resolve(c)
        \/ OfficeRaw_init(c)
        \/ Office_new_check(c)
        \/ Office_clone(c)
        \/ Office_drop(c)
        \/ get_version_info(c)
        \/ document_load(c)
        \/ save_as(c)
        \/ get_document_type(c)
        \/ Document_drop(c)

SpecOffice == InitOffice /\ [][NextOffice]_vars

\* ------------------------------------------- detect_filetype.rs: one call

\* Most markers that follow the signature in one classifier input.
MaxMarks == 2

\* n bytes b.
Fill(n, b) == [i \in 1..n |-> b]

RECURSIVE Concat(_)
Concat(parts) == IF parts = << >> THEN << >> ELSE Head(parts) \o Concat(Tail(parts))

SeqsUpTo(S, n) == UNION { [1..k -> S] : k \in 0..n }

ZipMarks == {MarkWordDir, MarkPptDir, MarkXlDir, MarkWordMime, MarkPptMime, MarkXlMime,
             MarkOdfMime, MarkContentTypes}
OleMarks == {MarkOleWord1, MarkOleWord2, MarkOlePpt1, MarkOlePpt2, MarkOleXl1, MarkOleXl2}

\* "The quick brown fox": printable text with no marker in it.
TxtQuick == <<84,104,101,32,113,117,105,99,107,32,98,114,111,119,110,32,102,111,120>>

\* A signature (or none), then up to MaxMarks markers of its family in any
\* order.
MarkedInputs ==
    { sig \o Concat(ms) : sig \in {SigZip1, SigZip2}, ms \in SeqsUpTo(ZipMarks, MaxMarks) }
    \cup { SigOle2 \o Concat(ms) : ms \in SeqsUpTo(OleMarks, MaxMarks) }
    \cup { sig \o Concat(ms) : sig \in {SigPdf, SigRtf, << >>, <<0>>},
                               ms \in SeqsUpTo({MarkWordDir, MarkOleXl2}, MaxMarks) }

\* No signature: text bytes and others in proportions around nine in ten, as
\* short inputs, as inputs that fill the 256 bytes sampled, and as inputs
\* whose bytes after the sample are of the other kind.
RatioInputs ==
    { Fill(t, 97) \o Fill(o, 0) : t \in {8, 9, 10, 18, 19}, o \in {0, 1, 2} }
    \cup { Fill(9, 200) \o <<0>>, Fill(9, 97) \o <<11>>, Fill(9, 97) \o <<127>>,
           Fill(8, 97) \o <<10, 0>>, <<0>> \o Fill(9, 97), <<0>> \o Fill(10, 97),
           TxtHello, BinaryNoise, TxtQuick }
    \cup { Fill(t, 97) \o Fill(TextSample - t, 0) \o Fill(n, b) :
             t \in {230, 231}, n \in {0, 100}, b \in {0, 97} }

\* A signature and text that holds no marker.
UnmarkedInputs ==
    { sig \o body : sig \in {SigZip1, SigZip2, SigOle2, SigPdf, SigRtf},
                    body \in {TxtQuick, Fill(40, 97), Fill(4, 0)} }

\* Inputs longer than the prefix: a marker that ends with the prefix, one cut
\* by its end, one that starts after it.
LongInput(sig, m, shift, b) ==
    sig \o Fill(PrefixLen - Len(sig) - Len(m) + shift, b) \o m

LongInputs ==
    UNION { { LongInput(sig, m, shift, b) : shift \in {0, 2, Len(m)} } :
            sig \in {SigZip1, << >>}, m \in {MarkWordDir, MarkXlDir}, b \in {0, 97} }
    \cup UNION { { LongInput(SigOle2, m, shift, 0) : shift \in {0, 2, Len(m)} } :
            m \in {MarkOleXl2, MarkOlePpt2} }

ClassifierInputs == MarkedInputs \cup RatioInputs \cup UnmarkedInputs \cup LongInputs

\* Inputs that agree with content on the first PrefixLen bytes: content
\* itself, and when content is that long, the prefix followed by other bytes.
Twins(content) ==
    IF Len(content) < PrefixLen THEN {content}
    ELSE { SubSeq(content, 1, PrefixLen) \o tail :
             tail \in {<< >>, <<0>>, MarkWordDir, MarkOleXl2, TxtQuick} } \cup {content}

InitClassify ==
    /\ InitDispatcher
    /\ analysis = NoAnalysis
    /\ http = NoHttp
    /\ InitKit
    /\ compared = NoCompared
    /\ doc_url = NoDocUrl
    /\ install = NoInstall
    /\ InitOrder
    /\ \E content \in ClassifierInputs : \E twin \in Twins(content) :
        classified = [NoClassified EXCEPT !.content = content, !.twin = twin]

\* detect_file_type_from_bytes(&content) and detect_file_type_from_bytes(&twin).
Classify ==
    /\ classified.tag = "none"
    /\ classified' = [classified EXCEPT
            !.tag = detect_file_type_from_bytes(classified.content),
            !.twin_tag = detect_file_type_from_bytes(classified.twin)]
    /\ UNCHANGED <<dispatcherVars, analysis, routeVars, kitVars, compared, doc_url, install, orderVars>>

NextClassify == Classify

SpecClassify == InitClassify /\ [][NextClassify]_vars

\* ----------------------------------------------- the dispatcher, scheduled

\* The steps of request r that the runtime takes by itself: a task that can
\* go on is polled again, a file operation comes back, and the 60 s timer
\* fires if the child is still running.  The arrival of a call, the exit of
\* a child and the drop of a future by its caller are not among them.
Progress(r) ==
    \/ Lock(r)
    \/ LockGranted(r)
    \/ CreateTempDir(r)
    \/ WriteInput(r)
    \/ ProcessOutput(r)
    \/ TimeoutElapsed(r)
    \/ ScanOutputDir(r)
    \/ ReadOutput(r)
    \/ Unlock(r)

Fairness == \A r \in Reqs : WF_vars(Progress(r))

SpecFair == Init /\ [][Next]_vars /\ Fairness

\* ------------------------------------- admission to the locked region

\* Number of concurrent calls of convert_libreoffice_async that contend for
\* the mutex.
NumClients == 3

Clients == 1..NumClients

\* Every client has called convert_libreoffice_async with a text document
\* and none has been polled yet.
InitAdmission ==
    /\ pc = [r \in Clients |-> "lock"]
    /\ input = [r \in Clients |-> [bytes |-> TxtHello, from |-> "txt", to |-> "pdf"]]
    /\ lock_permits = 1
    /\ lock_waiters = << >>
    /\ lock_granted = {}
    /\ lock_asked = [r \in Clients |-> FALSE]
    /\ tmp = [r \in Clients |-> "none"]
    /\ files = [r \in Clients |-> EmptyDir]
    /\ child = [r \in Clients |-> "none"]
    /\ child_output = [r \in Clients |-> NoOutput]
    /\ outdir_at_exit = [r \in Clients |-> EmptyDir]
    /\ read_path = [r \in Clients |-> NoName]
    /\ result = [r \in Clients |-> NoResult]
    /\ analysis = NoAnalysis
    /\ http = NoHttp
    /\ InitKit
    /\ InitPure
    /\ InitOrder

\* The first poll of lock().await, with the order of arrival recorded; a call
\* that takes the free permit is admitted at once.
LockInOrder(r) ==
    /\ LockStep(r)
    /\ lock_order' = Append(lock_order, r)
    /\ admit_order' = IF lock_permits > 0 THEN Append(admit_order, r) ELSE admit_order

\* A waiter resumes with the guard: it is admitted.
LockGrantedInOrder(r) ==
    /\ LockGrantedStep(r)
    /\ admit_order' = Append(admit_order, r)
    /\ UNCHANGED lock_order

\* The locked region from temp_dir_with_files to the return, as one step: the
\* directory is gone again and the value is fixed; the guard is dropped next.
Converted(r) ==
    /\ pc[r] = "locked"
    /\ \E res \in {Ok(ChildData(DocumentName(input[r].to))), Timeout} :
        result' = [result EXCEPT ![r] = res]
    /\ tmp' = [tmp EXCEPT ![r] = "removed"]
    /\ pc' = [pc EXCEPT ![r] = "unlock"]
    /\ UNCHANGED <<input, lock_permits, lock_waiters, lock_granted, lock_asked, files,
                   child, child_output, outdir_at_exit, read_path, analysis, routeVars,
                   kitVars, pureVars, orderVars>>

NextAdmission ==
    \E r \in Clients :
        \/ LockInOrder(r)
        \/ LockGrantedInOrder(r)
        \/ Converted(r)
        \/ Cancel(r)
        \/ Unlock(r)

SpecAdmission == InitAdmission /\ [][NextAdmission]_vars

\* ------------------------------- libreofficekit/mod.rs: ProductVersion

\* Largest major and minor number of the versions compared.
MaxPart == 10

ProductVersion_new(major, minor) == [major |-> major, minor |-> minor]

\* u32::cmp.
U32_cmp(a, b) == IF a < b THEN "Less" ELSE IF a = b THEN "Equal" ELSE "Greater"

\* Variant: the minor numbers are compared first.
MutProductVersionCmp(self, other) ==
    IF U32_cmp(self.minor, other.minor) # "Equal"
    THEN U32_cmp(self.minor, other.minor)
    ELSE U32_cmp(self.major, other.major)

\* impl Ord for ProductVersion: cmp.
ProductVersion_cmp(self, other) ==
    IF U32_cmp(self.major, other.major) # "Equal"
    THEN U32_cmp(self.major, other.major)
    ELSE U32_cmp(self.minor, other.minor)

\* The decimal digits of n, as characters.
RECURSIVE Digits(_)
Digits(n) == IF n < 10 THEN <<48 + n>> ELSE Digits(n \div 10) \o <<48 + (n % 10)>>

\* impl Display: "{major}.{minor}".
ProductVersion_fmt(v) == Digits(v.major) \o <<46>> \o Digits(v.minor)

RECURSIVE DigitsValue(_, _)
DigitsValue(s, acc) ==
    IF s = << >> THEN acc ELSE DigitsValue(Tail(s), 10 * acc + (Head(s) - 48))

\* str::parse::<u32>: an optional '+', then one or more decimal digits.  The
\* strings tried have at most three digits, so the value always fits.
U32_from_str(s) ==
    LET digits == IF s # << >> /\ Head(s) = 43 THEN Tail(s) ELSE s IN
    IF digits # << >> /\ \A i \in 1..Len(digits) : digits[i] \in 48..57
    THEN [ok |-> TRUE, val |-> DigitsValue(digits, 0)]
    ELSE [ok |-> FALSE, val |-> 0]

\* impl FromStr: split at the first '.', parse both sides.
ProductVersion_from_str(s) ==
    LET dots == {i \in 1..Len(s) : s[i] = 46} IN
    IF dots = {} THEN [ok |-> FALSE, val |-> ProductVersion_new(0, 0)]
    ELSE LET dot == CHOOSE i \in dots : \A j \in dots : i <= j
             major == U32_from_str(SubSeq(s, 1, dot - 1))
             minor == U32_from_str(SubSeq(s, dot + 1, Len(s)))
         IN  IF major.ok /\ minor.ok
             THEN [ok |-> TRUE, val |-> ProductVersion_new(major.val, minor.val)]
             ELSE [ok |-> FALSE, val |-> ProductVersion_new(0, 0)]

\* The version strings tried: every "major.minor" up to MaxPart, and strings
\* that are no version: "7", "7.", ".1", "7.1.2", "a.1", "".
VersionStrings ==
    { ProductVersion_fmt(ProductVersion_new(a, b)) : a \in 0..MaxPart, b \in 0..MaxPart }
    \cup { <<55>>, <<55,46>>, <<46,49>>, <<55,46,49,46,50>>, <<97,46,49>>, << >> }

InitCompare ==
    /\ InitDispatcher
    /\ analysis = NoAnalysis
    /\ http = NoHttp
    /\ InitKit
    /\ classified = NoClassified
    /\ doc_url = NoDocUrl
    /\ install = NoInstall
    /\ InitOrder
    /\ \E left \in VersionStrings, right \in VersionStrings :
        compared = [NoCompared EXCEPT !.left = left, !.right = right]

\* left.parse::<ProductVersion>() and right.parse::<ProductVersion>(), then
\* a.cmp(&b) and b.cmp(&a).
Compare ==
    /\ compared.ordering = "none"
    /\ LET a == ProductVersion_from_str(compared.left)
           b == ProductVersion_from_str(compared.right)
       IN  compared' = [compared EXCEPT
                !.ordering = IF a.ok /\ b.ok THEN ProductVersion_cmp(a.val, b.val)
                             ELSE "InvalidProductVersion",
                !.reverse = IF a.ok /\ b.ok THEN ProductVersion_cmp(b.val, a.val)
                            ELSE "InvalidProductVersion"]
    /\ UNCHANGED <<dispatcherVars, analysis, routeVars, kitVars, classified, doc_url,
                   install, orderVars>>

NextCompare == Compare

SpecCompare == InitCompare /\ [][NextCompare]_vars

\* ------------------------------------ libreofficekit/urls.rs: DocUrl

\* Longest path, in characters, handed to DocUrl::from_path.
MaxPathLen == 3

\* The characters of the paths tried: '/', 'a', a space and NUL.
PathChars == {47, 97, 32, 0}

\* The process's current directory, "/w".
CurrentDir == <<47, 119>>

TxtFileScheme == <<102,105,108,101,58,47,47>>   \* file://

\* Path::is_absolute on Unix: the path starts with the root.
is_absolute(path) == path # << >> /\ Head(path) = 47

\* Path::components, without the root: the non-empty pieces between slashes.
RECURSIVE Components(_, _)
Components(path, piece) ==
    IF path = << >> THEN (IF piece = << >> THEN << >> ELSE <<piece>>)
    ELSE IF Head(path) = 47
         THEN (IF piece = << >> THEN << >> ELSE <<piece>>) \o Components(Tail(path), << >>)
         ELSE Components(Tail(path), Append(piece, Head(path)))

\* PathBuf::extend on an absolute path: "/" before each component.
RECURSIVE JoinPath(_)
JoinPath(pieces) ==
    IF pieces = << >> THEN << >> ELSE <<47>> \o Head(pieces) \o JoinPath(Tail(pieces))

\* std::path::absolute of a relative path: an error for the empty path and
\* when the current directory cannot be had, else the current directory
\* followed by the path's components, a trailing slash kept.
absolute(path, cwd_ok) ==
    IF path = << >> \/ ~cwd_ok THEN [ok |-> FALSE, val |-> << >>]
    ELSE [ok |-> TRUE,
          val |-> JoinPath(Components(CurrentDir, << >>) \o Components(path, << >>))
                  \o (IF path[Len(path)] = 47 THEN <<47>> ELSE << >>)]

\* percent_encode with the path-segment set: controls (NUL among them) and
\* the space become %XX; 'a' and 'w' stay.
RECURSIVE PercentEncode(_)
PercentEncode(piece) ==
    IF piece = << >> THEN << >>
    ELSE (IF Head(piece) = 0 THEN <<37,48,48>>
          ELSE IF Head(piece) = 32 THEN <<37,50,48>>
          ELSE <<Head(piece)>>) \o PercentEncode(Tail(piece))

RECURSIVE EncodeSegments(_)
EncodeSegments(pieces) ==
    IF pieces = << >> THEN << >>
    ELSE <<47>> \o PercentEncode(Head(pieces)) \o EncodeSegments(Tail(pieces))

\* Url::from_file_path: an error for a path that is not absolute, else
\* file:// and the percent-encoded components, "/" when there is none.
Url_from_file_path(path) ==
    IF ~is_absolute(path) THEN [ok |-> FALSE, val |-> << >>]
    ELSE LET pieces == Components(path, << >>) IN
         [ok |-> TRUE,
          val |-> TxtFileScheme \o (IF pieces = << >> THEN <<47>> ELSE EncodeSegments(pieces))]

\* CString::new: an error when the bytes hold a NUL.
CString_new(bytes) ==
    IF \E i \in 1..Len(bytes) : bytes[i] = 0
    THEN [ok |-> FALSE, val |-> << >>]
    ELSE [ok |-> TRUE, val |-> bytes]

DocUrlErr(tag) == [tag |-> tag, url |-> << >>]

\* DocUrl::from_absolute_path.
from_absolute_path(value) ==
    IF ~is_absolute(value) THEN DocUrlErr("OfficeError")
    ELSE LET url_value == Url_from_file_path(value) IN
         IF ~url_value.ok THEN DocUrlErr("OfficeError")
         ELSE LET value_str == CString_new(url_value.val) IN
              IF ~value_str.ok THEN DocUrlErr("NulError")
              ELSE [tag |-> "Ok", url |-> value_str.val]

\* DocUrl::from_path.  abs_path.display().to_string() keeps every ASCII
\* character of the path.
from_path(path, cwd_ok) ==
    IF is_absolute(path) THEN from_absolute_path(path)
    ELSE LET abs_path == absolute(path, cwd_ok) IN
         IF ~abs_path.ok THEN DocUrlErr("OfficeError")
         ELSE from_absolute_path(abs_path.val)

Paths == UNION { [1..k -> PathChars] : k \in 0..MaxPathLen }

InitUrl ==
    /\ InitDispatcher
    /\ analysis = NoAnalysis
    /\ http = NoHttp
    /\ InitKit
    /\ classified = NoClassified
    /\ compared = NoCompared
    /\ install = NoInstall
    /\ InitOrder
    /\ \E path \in Paths, cwd \in BOOLEAN :
        doc_url = [NoDocUrl EXCEPT !.path = path, !.cwd = cwd]

\* One call DocUrl::from_path(path).
DocUrl_from_path ==
    /\ doc_url.result.tag = "none"
    /\ doc_url' = [doc_url EXCEPT !.result = from_path(doc_url.path, doc_url.cwd)]
    /\ UNCHANGED <<dispatcherVars, analysis, routeVars, kitVars, classified, compared,
                   install, orderVars>>

NextUrl == DocUrl_from_path

SpecUrl == InitUrl /\ [][NextUrl]_vars

\* ------------------------------- libreofficekit/mod.rs: find_install_path

\* Most entries that read_dir("/opt") yields.
MaxOptEntries == 2

\* What Path::exists and DirEntry::file_type see at a path.
PathKinds == {"absent", "file", "dir"}

\* "libreoffice" and the directory names tried under /opt: libreoffice7.9,
\* libreoffice7.10, libreoffice07.10 (the same version as the one before),
\* libreoffice7 (no version) and office8.0 (no prefix).
TxtLibreoffice == <<108, 105, 98, 114, 101, 111, 102, 102, 105, 99, 101>>
OptNames ==
    { TxtLibreoffice \o <<55, 46, 57>>, TxtLibreoffice \o <<55, 46, 49, 48>>,
      TxtLibreoffice \o <<48, 55, 46, 49, 48>>, TxtLibreoffice \o <<55>>,
      <<111, 102, 102, 105, 99, 101, 56, 46, 48>> }

\* An entry of /opt: its name, what it is, and what <entry>/program is (a
\* file has nothing below it).
OptEntries ==
    [name : OptNames, kind : {"dir"}, program : PathKinds]
    \cup [name : OptNames, kind : {"file"}, program : {"absent"}]

\* The listings of /opt, in the order read_dir yields them: names differ.
OptListings ==
    { l \in UNION { [1..n -> OptEntries] : n \in 0..MaxOptEntries } :
        \A i, j \in 1..Len(l) : i # j => l[i].name # l[j].name }

\* /opt: missing, there but not readable as a directory, or listed.
OptStates ==
    { [state |-> "missing", entries |-> << >>], [state |-> "unreadable", entries |-> << >>] }
    \cup { [state |-> "listed", entries |-> l] : l \in OptListings }

KNOWN_PATHS == <<"/usr/lib64/libreoffice/program", "/usr/lib/libreoffice/program">>

\* Option<PathBuf>: where the path was taken from (the variable, a known
\* path, /opt) and for /opt the directory whose program path it is.
NoPath == [some |-> FALSE, from |-> "", dir |-> << >>]
SomePath(from, dir) == [some |-> TRUE, from |-> from, dir |-> dir]

\* Path::exists: true for whatever is there, a directory or not.
exists(kind) == kind # "absent"

\* str::strip_prefix.
strip_prefix(s, prefix) ==
    IF StartsWith(s, prefix)
    THEN [some |-> TRUE, val |-> SubSeq(s, Len(prefix) + 1, Len(s))]
    ELSE [some |-> FALSE, val |-> << >>]

\* The closure of filter_map in find_opt_installs, for one entry: << >> for
\* None, else the one pair (version, directory).
OptInstall(entry) ==
    LET version == strip_prefix(entry.name, TxtLibreoffice)
        product_version == ProductVersion_from_str(version.val)
    IN  IF entry.kind # "dir" THEN << >>
        ELSE IF ~version.some THEN << >>
        ELSE IF ~product_version.ok THEN << >>
        ELSE IF ~exists(entry.program) THEN << >>
        ELSE << [key |-> product_version.val, dir |-> entry.name] >>

RECURSIVE FilterMapInstalls(_)
FilterMapInstalls(entries) ==
    IF entries = << >> THEN << >>
    ELSE OptInstall(Head(entries)) \o FilterMapInstalls(Tail(entries))

\* find_opt_installs: Ok(empty) without /opt, the error of read_dir, or the
\* installs in the order of the listing.
find_opt_installs(opt) ==
    IF opt.state = "missing" THEN [ok |-> TRUE, val |-> << >>]
    ELSE IF opt.state = "unreadable" THEN [ok |-> FALSE, val |-> << >>]
    ELSE [ok |-> TRUE, val |-> FilterMapInstalls(opt.entries)]

\* One step of the stable sort: x goes behind every element not greater.
RECURSIVE InsertByKey(_, _)
InsertByKey(sorted, x) ==
    IF sorted = << >> THEN <<x>>
    ELSE IF ProductVersion_cmp(Head(sorted).key, x.key) = "Greater" THEN <<x>> \o sorted
    ELSE <<Head(sorted)>> \o InsertByKey(Tail(sorted), x)

\* Vec::sort_by_key(|(key, _)| *key): stable, ascending.
RECURSIVE sort_by_key(_)
sort_by_key(installs) ==
    IF installs = << >> THEN << >>
    ELSE InsertByKey(sort_by_key(SubSeq(installs, 1, Len(installs) - 1)),
                     installs[Len(installs)])

\* find_opt_latest: `?` on the installs, the sort, pop() of the last.
find_opt_latest(opt) ==
    LET installs == find_opt_installs(opt)
        sorted == sort_by_key(installs.val)
    IN  IF ~installs.ok THEN [ok |-> FALSE, val |-> NoPath]
        ELSE IF sorted = << >> THEN [ok |-> TRUE, val |-> NoPath]
        ELSE [ok |-> TRUE, val |-> SomePath("/opt", sorted[Len(sorted)].dir)]

\* find_install_path: the variable when its path exists, the first known
\* path that exists, the latest of /opt, None.
find_install_path(env, known, opt) ==
    LET found == {i \in 1..Len(KNOWN_PATHS) : exists(known[i])}
        latest == find_opt_latest(opt)
    IN  IF env # "unset" /\ exists(env) THEN SomePath("LOK_PROGRAM_PATH", << >>)
        ELSE IF found # {}
        THEN SomePath(KNOWN_PATHS[CHOOSE i \in found : \A j \in found : i <= j], << >>)
        ELSE IF latest.ok /\ latest.val.some THEN latest.val
        ELSE NoPath

\* The file system one call finds: LOK_PROGRAM_PATH unset or naming a path of
\* some kind, the two known paths, /opt.
InitInstall ==
    /\ InitDispatcher
    /\ analysis = NoAnalysis
    /\ http = NoHttp
    /\ InitKit
    /\ classified = NoClassified
    /\ compared = NoCompared
    /\ doc_url = NoDocUrl
    /\ InitOrder
    /\ \E env \in {"unset"} \cup PathKinds, known \in [1..2 -> PathKinds], opt \in OptStates :
        install = [NoInstall EXCEPT !.env = env, !.known = known, !.opt = opt]

\* One call Office::find_install_path().
Office_find_install_path ==
    /\ ~install.called
    /\ install' = [install EXCEPT !.called = TRUE,
                       !.result = find_install_path(install.env, install.known, install.opt)]
    /\ UNCHANGED <<dispatcherVars, analysis, routeVars, kitVars, classified, compared,
                   doc_url, orderVars>>

NextInstall == Office_find_install_path

SpecInstall == InitInstall /\ [][NextInstall]_vars

\* --------------------------------------- libreofficekit/sys.rs: DocumentRaw

\* Every caller holds a Document it loaded from an Office of its own that it
\* has dropped since: the flag is false, and each DocumentRaw has the pointer
\* documentLoad returned.
InitDocument ==
    /\ InitDispatcher
    /\ analysis = NoAnalysis
    /\ http = NoHttp
    /\ GLOBAL_OFFICE_LOCK = FALSE
    /\ LOK_CONTAINER = "hook"
    /\ office_pc = [c \in Callers |-> "returned"]
    /\ office_path = [c \in Callers |-> "absolute"]
    /\ office_result = [c \in Callers |-> [tag |-> "Ok", saw |-> FALSE, lock_after |-> FALSE]]
    /\ office_handles = [c \in Callers |-> 0]
    /\ office_raw = [c \in Callers |-> "dropped"]
    /\ document = [c \in Callers |-> "live"]
    /\ doc_raw = [c \in Callers |-> [this |-> "valid", destroys |-> 0]]
    /\ last_drop = [caller |-> NumCallers, left |-> 0, flag |-> FALSE]
    /\ lok_error = ""
    /\ last_call = [name |-> "documentLoad", tag |-> "Ok", error |-> "", read |-> TRUE]
    /\ InitPure
    /\ InitOrder

\* What the holder of a DocumentRaw can do with it.
NextDocument ==
    \E c \in Callers :
        \/ save_as(c)
        \/ get_document_type(c)
        \/ DocumentRaw_destroy(c)
        \/ Document_drop(c)

SpecDocument == InitDocument /\ [][NextDocument]_vars

\* ======================================================== properties

Returned(r) == pc[r] = "done"

\* The stderr/stdout table of the specification, read on its own terms: a
\* case-insensitive substring test on stderr + " " + stdout, first row wins.
SameLetter(a, b) ==
    \/ a = b
    \/ (a >= 65 /\ a <= 90 /\ b = a + 32)
    \/ (b >= 65 /\ b <= 90 /\ a = b + 32)

HasIgnoreCase(text, kw) ==
    \E i \in 1..(Len(text) - Len(kw) + 1) :
        \A j \in 1..Len(kw) : SameLetter(text[i + j - 1], kw[j])

TableRows ==
    << [all |-> FALSE, kws |-> {KwPassword, KwEncrypted}, error |-> "PasswordProtected"],
       [all |-> TRUE,  kws |-> {KwFormat, KwNotSupported}, error |-> "UnsupportedConversion"],
       [all |-> FALSE, kws |-> {KwCorrupt, KwDamaged, KwInvalid, KwParseError, KwBadFile},
        error |-> "CorruptedInput"],
       [all |-> FALSE, kws |-> {KwEmpty, KwNoContent, KwZeroBytes},
        error |-> "EmptyOrInvalidInput"],
       [all |-> TRUE,  kws |-> {KwFilter, KwNotFound}, error |-> "UnsupportedConversion"] >>

RowMatches(row, text) ==
    IF row.all THEN \A kw \in row.kws : HasIgnoreCase(text, kw)
    ELSE \E kw \in row.kws : HasIgnoreCase(text, kw)

\* The error the table assigns: its kind and the fields the kind carries.
TableError(stderr, stdout, from, to) ==
    LET text == stderr \o <<32>> \o stdout
        hits == {i \in 1..Len(TableRows) : RowMatches(TableRows[i], text)}
        first == CHOOSE i \in hits : \A j \in hits : i <= j
        kind == IF hits = {} THEN "ConversionFailed" ELSE TableRows[first].error
    IN  [tag |-> kind,
         from |-> IF kind = "UnsupportedConversion" THEN from ELSE "",
         to |-> IF kind = "UnsupportedConversion" THEN to ELSE "",
         stderr |-> IF kind = "ConversionFailed" THEN stderr ELSE NoText,
         stdout |-> IF kind = "ConversionFailed" THEN stdout ELSE NoText]

ErrorOf(res) ==
    [tag |-> res.tag, from |-> res.from, to |-> res.to,
     stderr |-> res.stderr, stdout |-> res.stdout]

\* The classifier's verdict on each input of the menu.
ClassOfSample == [b \in InputSamples |-> detect_file_type_from_bytes(b)]

\* The table's error for each pair of texts a child of the menu prints.
TableErrorOfChild ==
    [t \in ChildTexts, from \in InputFormats, to \in OutputFormats |->
        TableError(t[1], t[2], from, to)]

\* ---- C1
\* C1: at any time at most one request is between acquiring and releasing
\* the conversion mutex; the locked intervals of two requests never overlap.
C1_MutualExclusion ==
    Cardinality({r \in Reqs : pc[r] \in LockedPcs}) <= 1

\* Two requests contend: one is inside the locked region, running its child,
\* while another is queued in lock().await.
C1_Witness ==
    \E r1, r2 \in Reqs : pc[r1] = "running" /\ pc[r2] = "waiting"

\* ---- C2
\* C2: at any time at most one LibreOffice child process spawned by the
\* dispatcher is running, whatever the interleaving, timeouts and
\* cancellations included.
C2_AtMostOneChild ==
    Cardinality({r \in Reqs : child[r] = "running"}) <= 1

\* ---- C3
\* C3: once convert has returned Timeout, that request's child is no longer
\* running.
C3_TimeoutKillsChild ==
    \A r \in Reqs :
        (Returned(r) /\ result[r].tag = "Timeout") => child[r] # "running"

\* ---- C4
\* C4: after a convert call has returned, on every exit path, the temp
\* directory created for that request no longer exists.
C4_TempDirRemoved ==
    \A r \in Reqs : Returned(r) => (tmp[r] # "exists" /\ files[r] = EmptyDir)

\* Two calls have returned, one by the timeout and one with converted bytes,
\* and the directory each had created is gone.
C4_Witness ==
    \E r1, r2 \in Reqs :
        /\ Returned(r1) /\ result[r1].tag = "Timeout" /\ tmp[r1] = "removed"
        /\ Returned(r2) /\ result[r2].tag = "Ok" /\ tmp[r2] = "removed"

\* ---- C5
\* C5: a request future dropped inside the locked region leaves (a) no child
\* of the request running, (b) the mutex released, and (c) the request's temp
\* directory deleted.  Inside the locked region every await comes after the
\* temp directory was created, so such a request is one that is cancelled
\* with a directory on record.
C5_CancelCleansUp ==
    \A r \in Reqs :
        (pc[r] = "cancelled" /\ tmp[r] # "none") =>
            /\ child[r] # "running"
            /\ lock_permits + Cardinality(lock_granted)
                 + Cardinality({q \in Reqs : pc[q] \in LockedPcs}) = 1
            /\ tmp[r] = "removed"

\* ---- C6
\* C6: a request whose bytes classify as Unknown returns
\* UnsupportedConversion with its own from and to, having neither asked for
\* the mutex nor created a temp directory, written a file or spawned a child;
\* and any request that has asked for the mutex was classified before, as
\* something other than Unknown.
C6_UnknownRejectedBeforeLock ==
    \A r \in Reqs :
        /\ (pc[r] # "idle" /\ ClassOfSample[input[r].bytes] = "Unknown") =>
              /\ Returned(r)
              /\ result[r] = UnsupportedConversion(input[r].from, input[r].to)
              /\ ~lock_asked[r]
              /\ tmp[r] = "none" /\ files[r] = EmptyDir /\ child[r] = "none"
        /\ lock_asked[r] =>
              /\ pc[r] # "idle"
              /\ ClassOfSample[input[r].bytes] # "Unknown"

\* Binary noise has been turned away while another request is converting
\* under the mutex.
C6_Witness ==
    \E r1, r2 \in Reqs :
        /\ Returned(r1) /\ input[r1].bytes = BinaryNoise /\ input[r1].to = "pdf"
        /\ result[r1].tag = "UnsupportedConversion"
        /\ lock_asked[r2] /\ pc[r2] = "running"

\* ---- C7
\* C7: when the child exits with a non-zero status, convert returns the error
\* the stderr/stdout table assigns, never Ok, and no file of the output
\* directory is looked for or read, whatever the child left there.
C7_NonZeroExitIsError ==
    \A r \in Reqs :
        (child_output[r] # NoOutput /\ child_output[r].status # 0) =>
            /\ pc[r] \notin {"scanning", "reading"}
            /\ read_path[r] = NoName
            /\ Returned(r) =>
                  /\ result[r].tag # "Ok"
                  /\ ErrorOf(result[r]) =
                        TableErrorOfChild[<<child_output[r].stderr, child_output[r].stdout>>,
                                          input[r].from, input[r].to]

\* A child has failed with the password message and left a document.pdf
\* behind; the call has returned PasswordProtected.
C7_Witness ==
    \E r \in Reqs :
        /\ Returned(r) /\ child_output[r].status = 1 /\ input[r].to = "pdf"
        /\ <<"document", "pdf">> \in DOMAIN outdir_at_exit[r]
        /\ result[r].tag = "PasswordProtected"

\* ---- C8
\* C8: analyze_libreoffice_error returns what the table assigns: the first
\* row, in the table's order, whose keywords occur (case-insensitively) in
\* stderr + " " + stdout, and ConversionFailed with the full text when no row
\* matches.
C8_AnalyzeMatchesTable ==
    analysis.error.tag # "none" =>
        ErrorOf(analysis.error) =
            TableError(analysis.stderr, analysis.stdout, analysis.from, analysis.to)

\* Two rows match and the earlier one has won, on a keyword that occurs only
\* in another case than the table's.
C8_Witness ==
    /\ analysis.error.tag = "PasswordProtected"
    /\ HasIgnoreCase(analysis.stderr, KwCorrupt)
    /\ ~Contains(analysis.stderr \o <<32>> \o analysis.stdout, KwPassword)
    /\ ~HasIgnoreCase(analysis.stderr \o <<32>> \o analysis.stdout, KwEncrypted)

\* ---- C9
\* What was in the output directory under the name document.<to> when the
\* child exited cleanly.
ExpectedAtExit(r) == DocumentName(input[r].to)

CleanExit(r) == child_output[r] # NoOutput /\ child_output[r].status = 0

\* C9 as stated: after a clean exit with document.<to> in the output
\* directory, convert returns Ok with that file's bytes and the temp directory
\* is gone.
C9_OkWithExpectedFile ==
    \A r \in Reqs :
        (Returned(r) /\ CleanExit(r) /\ ExpectedAtExit(r) \in DOMAIN outdir_at_exit[r]) =>
            /\ result[r] = Ok(outdir_at_exit[r][ExpectedAtExit(r)])
            /\ tmp[r] = "removed"

\* C9 (amended): after a clean exit with document.<to> in the output
\* directory, convert returns Ok with that file's bytes, or Io when reading
\* the file fails; in both cases the temp directory is gone.
C9_OkOrIoWithExpectedFile ==
    \A r \in Reqs :
        (Returned(r) /\ CleanExit(r) /\ ExpectedAtExit(r) \in DOMAIN outdir_at_exit[r]) =>
            /\ \/ result[r] = Ok(outdir_at_exit[r][ExpectedAtExit(r)])
               \/ result[r] = Io
            /\ tmp[r] = "removed"

\* The child has written document.pdf and exited cleanly, and the call has
\* returned those bytes.
C9_Witness ==
    \E r \in Reqs :
        /\ Returned(r) /\ CleanExit(r) /\ input[r].to = "pdf"
        /\ <<"document", "pdf">> \in DOMAIN outdir_at_exit[r]
        /\ result[r] = Ok(ChildData(<<"document", "pdf">>))
        /\ tmp[r] = "removed"

\* ---- C10
\* The files of the listing at exit whose extension is the target format.
TargetFilesAtExit(r) ==
    {n \in DOMAIN outdir_at_exit[r] : n[2] = input[r].to}

OnlyOneTargetFile(r) ==
    /\ Returned(r) /\ CleanExit(r)
    /\ ExpectedAtExit(r) \notin DOMAIN outdir_at_exit[r]
    /\ Cardinality(TargetFilesAtExit(r)) = 1

\* C10 as stated: after a clean exit without document.<to> but with exactly
\* one file of extension <to>, convert returns Ok with that file's bytes.
C10_OkWithOnlyMatch ==
    \A r \in Reqs :
        OnlyOneTargetFile(r) =>
            \E n \in TargetFilesAtExit(r) : result[r] = Ok(outdir_at_exit[r][n])

\* C10 (amended): in that case convert returns Ok with that file's bytes, or
\* Io when listing the directory or reading the file fails.
C10_OkOrIoWithOnlyMatch ==
    \A r \in Reqs :
        OnlyOneTargetFile(r) =>
            \/ \E n \in TargetFilesAtExit(r) : result[r] = Ok(outdir_at_exit[r][n])
            \/ result[r] = Io

\* The child has written out.pdf only, and the call has returned its bytes.
C10_Witness ==
    \E r \in Reqs :
        /\ OnlyOneTargetFile(r) /\ input[r].to = "pdf"
        /\ result[r] = Ok(ChildData(<<"out", "pdf">>))

\* ---- C11
\* The child has created no file: the directory holds at its exit what it held
\* when the child was spawned, the staged input file alone.
NothingGenerated(r) ==
    outdir_at_exit[r] = (DocumentName(input[r].from) :> input[r].bytes)

\* C11: after a clean exit of a child that created no file in the output
\* directory, convert fails with CorruptedInput (a failure to list the
\* directory set aside: Io, OutputNotFound).
C11_NothingGeneratedIsCorruptedInput ==
    \A r \in Reqs :
        (Returned(r) /\ CleanExit(r) /\ NothingGenerated(r)) =>
            result[r].tag \in {"CorruptedInput", "Io", "OutputNotFound"}

\* ---- C12
\* The directory at the child's clean exit holds files, none of them with the
\* target extension (document.<to> is then absent as well).
NoTargetFile(r) ==
    /\ Returned(r) /\ CleanExit(r)
    /\ DOMAIN outdir_at_exit[r] # {}
    /\ TargetFilesAtExit(r) = {}

StatusTable(kind) ==
    IF kind = "Timeout" THEN 408
    ELSE IF kind \in {"CorruptedInput", "UnsupportedConversion", "PasswordProtected",
                      "EmptyOrInvalidInput"} THEN 400
    ELSE 500

\* C13: the status of the response to a failed conversion is the one the
\* table assigns to the error's kind, in the route's match and in the From
\* impl alike: Timeout 408; CorruptedInput, UnsupportedConversion,
\* PasswordProtected, EmptyOrInvalidInput 400; every other kind 500.
C13_StatusIsFunctionOfKind ==
    (http.stage = "responded" /\ http.outcome.tag \notin {"none", "Ok"}) =>
        /\ http.response.status = StatusTable(http.outcome.tag)
        /\ response_from(http.outcome).status = StatusTable(http.outcome.tag)

\* A conversion has timed out and the response carries 408.
C13_Witness ==
    /\ http.stage = "responded" /\ http.outcome.tag = "Timeout"
    /\ http.response.status = 408

\* ---- C14
\* C14: a request with the file and output_format fields and without
\* input_format is not rejected for the missing field: the conversion is
\* attempted.
C14_InputFormatOptional ==
    ( /\ http.stage = "responded" /\ http.broken = ""
      /\ http.file.some /\ http.output_format.some /\ ~http.input_format.some ) =>
        /\ http.outcome.tag # "none"
        /\ http.response.format #
              "Missing required fields: file, input_format, output_format"

\* ---- C15
\* The callers that hold the right to the engine: inside Office::new past the
\* swap, or with their OfficeRaw alive.
Holders == {c \in Callers : office_pc[c] \in {"resolve", "init", "check"}
                            \/ office_raw[c] = "alive"}

\* C15: an Office::new whose swap found the flag set (an instance alive or
\* another new under way) returns InstanceLock and leaves the flag true, and
\* only such a call returns InstanceLock; at any time at most one caller is
\* past the swap or holds a live engine, and the flag is true while one does.
C15_SecondNewIsInstanceLock ==
    /\ \A c \in Callers :
        /\ (office_pc[c] # "idle" /\ office_result[c].saw) =>
              /\ office_pc[c] = "returned"
              /\ office_result[c].tag = "InstanceLock"
              /\ office_result[c].lock_after
        /\ office_result[c].tag = "InstanceLock" => office_result[c].saw
    /\ Cardinality(Holders) <= 1
    /\ Holders # {} => GLOBAL_OFFICE_LOCK

\* One caller holds a live Office and another's new has come back with
\* InstanceLock, the flag still set.
C15_Witness ==
    \E c1, c2 \in Callers :
        /\ office_result[c1].tag = "Ok" /\ office_raw[c1] = "alive"
        /\ office_result[c2].tag = "InstanceLock"
        /\ GLOBAL_OFFICE_LOCK

\* ---- C16
\* C16: when Office::new has failed after flipping the flag (any error but
\* InstanceLock), the flag was false again when it returned.
C16_FlagRevertedOnFailure ==
    \A c \in Callers :
        (office_pc[c] = "returned" /\ office_result[c].tag \notin {"Ok", "InstanceLock"}) =>
            ~office_result[c].lock_after

\* ---- C17
\* C17: once every handle to a successfully created engine has been dropped,
\* the flag is false as that drop leaves it, the raw instance is gone, and a
\* new that then finds the flag false is not turned away with InstanceLock.
C17_FlagFalseAfterLastDrop ==
    \A c \in Callers :
        /\ (office_result[c].tag = "Ok" /\ office_handles[c] = 0) =>
              /\ ~office_result[c].lock_after
              /\ office_raw[c] = "dropped"
        /\ (office_pc[c] # "idle" /\ ~office_result[c].saw) =>
              office_result[c].tag # "InstanceLock"

\* An engine was created, cloned or not, and all its handles were dropped; a
\* later Office::new of another caller has succeeded.
C17_Witness ==
    \E c1, c2 \in Callers :
        /\ office_result[c1].tag = "Ok" /\ office_handles[c1] = 0
        /\ office_raw[c1] = "dropped"
        /\ office_result[c2].tag = "Ok" /\ office_raw[c2] = "alive"

\* ---- C18
\* C18: at most one engine instance is ever initialized in the process: once
\* an Office::new has succeeded, no other Office::new calls the init hook and
\* succeeds in its turn, also after the first engine was dropped.
C18_AtMostOneEngineEver ==
    Cardinality({c \in Callers : office_result[c].tag = "Ok"}) <= 1

\* ---- C19
\* C19: a live Document implies that the Office which loaded it has not been
\* dropped.
C19_DocumentWithinOffice ==
    \A c \in Callers : document[c] = "live" => office_raw[c] = "alive"

\* ---- C20
\* C20: every engine call that returns a value is followed by a read of the
\* error channel before the value reaches the caller, and a non-empty error
\* string is returned as OfficeError.
C20_ErrorChannelRead ==
    last_call.name # "none" =>
        /\ last_call.read
        /\ last_call.error # "" => last_call.tag = "OfficeError"

\* ---------------------------------------------------------------- C21..C30

\* The variants of enum FileType.
FileType == {"Word", "PowerPoint", "Excel", "Pdf", "RichText", "PlainText",
             "OpenDocument", "Unknown"}

SignatureRows ==
    << [sigs |-> {SigPdf}, marks |-> {}, tag |-> "Pdf"],
       [sigs |-> {SigRtf}, marks |-> {}, tag |-> "RichText"],
       [sigs |-> {SigZip1, SigZip2}, marks |-> {MarkWordDir, MarkWordMime}, tag |-> "Word"],
       [sigs |-> {SigZip1, SigZip2}, marks |-> {MarkPptDir, MarkPptMime}, tag |-> "PowerPoint"],
       [sigs |-> {SigZip1, SigZip2}, marks |-> {MarkXlDir, MarkXlMime}, tag |-> "Excel"],
       [sigs |-> {SigZip1, SigZip2}, marks |-> {MarkOdfMime}, tag |-> "OpenDocument"],
       [sigs |-> {SigZip1, SigZip2}, marks |-> {MarkContentTypes}, tag |-> "Word"],
       [sigs |-> {SigOle2}, marks |-> {MarkOleWord1, MarkOleWord2}, tag |-> "Word"],
       [sigs |-> {SigOle2}, marks |-> {MarkOlePpt1, MarkOlePpt2}, tag |-> "PowerPoint"],
       [sigs |-> {SigOle2}, marks |-> {MarkOleXl1, MarkOleXl2}, tag |-> "Excel"],
       [sigs |-> {SigOle2}, marks |-> {}, tag |-> "Word"] >>

RowFires(row, content) ==
    /\ \E sig \in row.sigs : StartsWith(content, sig)
    /\ \/ row.marks = {}
       \/ \E i \in 1..Min(Len(content), PrefixLen), m \in row.marks :
            /\ i + Len(m) - 1 <= Min(Len(content), PrefixLen)
            /\ \A k \in 1..Len(m) : content[i + k - 1] = m[k]

\* The tag of the first row that fires, "none" when no row does; the empty
\* input is the row before all others.
TableTag(content) ==
    IF content = << >> THEN "Unknown"
    ELSE LET firing == {i \in 1..Len(SignatureRows) : RowFires(SignatureRows[i], content)}
         IN  IF firing = {} THEN "none"
             ELSE SignatureRows[CHOOSE i \in firing : \A j \in firing : i <= j].tag

\* C22: for every input, the tag returned is that of the first row of the
\* signature table that fires on it: empty, %PDF-, {\rtf1, ZIP with word/
\* before ppt/ before xl/ before the OpenDocument MIME type before
\* [Content_Types].xml, OLE2 with the Word, PowerPoint, Excel markers in that
\* order, and OLE2 with no marker as Word.
C22_TagOfFirstMatchingRow ==
    (classified.tag # "none" /\ TableTag(classified.content) # "none") =>
        classified.tag = TableTag(classified.content)

\* A ZIP input that holds the ppt/ marker before the word/ marker has been
\* classified; so has an OLE2 input with the Excel marker before the
\* PowerPoint one.
C22_Witness ==
    /\ classified.tag # "none"
    /\ \/ classified.content = SigZip1 \o MarkPptDir \o MarkWordDir
       \/ classified.content = SigOle2 \o MarkOleXl2 \o MarkOlePpt2
    /\ TableTag(classified.content) = classified.tag

\* The input starts with none of the five signatures.
NoSignature(content) ==
    \A sig \in {SigPdf, SigRtf, SigZip1, SigZip2, SigOle2} : ~StartsWith(content, sig)

\* How many of the first min(length, TextSample) bytes are printable ASCII,
\* ASCII whitespace or >= 0x80.
TextBytes(content) ==
    Cardinality({i \in 1..Min(Len(content), TextSample) :
        \/ content[i] \in 33..126
        \/ content[i] \in {9, 10, 12, 13, 32}
        \/ content[i] \in 128..255})

\* C23: a non-empty input that matches no signature row is PlainText exactly
\* when at least nine in ten (the boundary included) of its first
\* min(length, 256) bytes are printable ASCII, ASCII whitespace or bytes
\* >= 0x80, and Unknown otherwise.
C23_TextAtNinetyPercent ==
    (/\ classified.tag # "none"
     /\ classified.content # << >>
     /\ NoSignature(classified.content)) =>
        classified.tag =
            IF 10 * TextBytes(classified.content)
                 >= 9 * Min(Len(classified.content), TextSample)
            THEN "PlainText" ELSE "Unknown"

\* Marker m lies within the first PrefixLen bytes of content.
MarkerInPrefix(content, m) ==
    \E i \in 1..PrefixLen :
        /\ i + Len(m) - 1 <= PrefixLen
        /\ i + Len(m) - 1 <= Len(content)
        /\ \A k \in 1..Len(m) : content[i + k - 1] = m[k]

ZipWithoutMarker(content) ==
    /\ StartsWith(content, SigZip1) \/ StartsWith(content, SigZip2)
    /\ \A m \in ZipMarks : ~MarkerInPrefix(content, m)

\* C29: an input that starts with a ZIP signature and whose first 1024 bytes
\* hold no Office or OpenDocument marker is Unknown, whatever its other bytes
\* are: the text heuristic is not applied to it.
C29_ZipWithoutMarkerIsUnknown ==
    (classified.tag # "none" /\ ZipWithoutMarker(classified.content)) =>
        classified.tag = "Unknown"

\* A ZIP signature followed by forty letters has been classified, and so has
\* one whose only marker starts after the prefix; the text heuristic would
\* call both text.
C29_Witness ==
    /\ classified.tag # "none"
    /\ \/ classified.content = SigZip1 \o Fill(40, 97)
       \/ classified.content = LongInput(SigZip1, MarkWordDir, Len(MarkWordDir), 97)
    /\ ZipWithoutMarker(classified.content)
    /\ is_likely_text(classified.content)

\* C30: the tag depends only on the first 1024 bytes: two inputs that agree
\* on them, both at least that long or else equal, get the same tag.
C30_TagDependsOnPrefixOnly ==
    (/\ classified.tag # "none"
     /\ \/ classified.twin = classified.content
        \/ /\ Len(classified.content) >= PrefixLen
           /\ Len(classified.twin) >= PrefixLen
           /\ \A i \in 1..PrefixLen : classified.twin[i] = classified.content[i]) =>
        classified.twin_tag = classified.tag

\* Two inputs that differ only after the prefix have been classified: one
\* has a marker there, the other has none.
C30_Witness ==
    /\ classified.tag # "none"
    /\ classified.content = LongInput(SigZip1, MarkXlDir, Len(MarkXlDir), 0)
    /\ classified.twin = SubSeq(classified.content, 1, PrefixLen) \o MarkWordDir
    /\ classified.twin # classified.content
    /\ classified.twin_tag = classified.tag

\* Position of request r in a history, 0 when it is not in it.
PosIn(order, r) ==
    IF \E i \in 1..Len(order) : order[i] = r
    THEN CHOOSE i \in 1..Len(order) : order[i] = r
    ELSE 0

\* A reached lock() before B did.
AskedBefore(a, b) ==
    /\ PosIn(lock_order, a) > 0
    /\ PosIn(lock_order, b) > 0
    /\ PosIn(lock_order, a) < PosIn(lock_order, b)

\* A entered the locked region, and did so before B.
AdmittedBefore(a, b) ==
    /\ PosIn(admit_order, a) > 0
    /\ PosIn(admit_order, a) < PosIn(admit_order, b)

\* C24 as stated: admission is first in, first out: once B has entered the
\* locked region, every request A that started to wait for the mutex before B
\* has entered it before B.
C24_FifoAdmission ==
    \A a \in DOMAIN pc, b \in DOMAIN pc :
        (AskedBefore(a, b) /\ PosIn(admit_order, b) > 0) => AdmittedBefore(a, b)

\* C24, amended: once B has entered the locked region, every request A that
\* reached lock() before B has entered it before B, or was dropped by its
\* caller while it waited; nobody who still waits is overtaken.
C24_FifoAdmissionOfLiveWaiters ==
    \A a \in DOMAIN pc, b \in DOMAIN pc :
        (AskedBefore(a, b) /\ PosIn(admit_order, b) > 0) =>
            \/ AdmittedBefore(a, b)
            \/ pc[a] = "cancelled" /\ PosIn(admit_order, a) = 0

\* Two requests queued behind a holder, and both have been admitted, in the
\* order in which they arrived.
C24_Witness ==
    \E h \in DOMAIN pc, a \in DOMAIN pc, b \in DOMAIN pc :
        /\ Len(lock_order) >= 3
        /\ lock_order[1] = h /\ lock_order[2] = a /\ lock_order[3] = b
        /\ Len(admit_order) >= 3
        /\ admit_order[1] = h /\ admit_order[2] = a /\ admit_order[3] = b
        /\ pc[h] = "done"
        /\ pc[b] \in LockedPcs

\* C25: the mutex spans the whole life of a request's temp directory: the
\* directory is created after the mutex is acquired and removed before it is
\* released, on every exit path; so a request whose directory exists holds
\* the mutex and has not yet come to release it, and at most one directory
\* exists at any time.
C25_TempDirWithinLock ==
    /\ \A r \in Reqs :
        tmp[r] = "exists" =>
            /\ pc[r] \in LockedPcs
            /\ pc[r] \notin {"locked", "unlock"}
            /\ lock_permits = 0
    /\ Cardinality({r \in Reqs : tmp[r] = "exists"}) <= 1

\* One request's directory exists while its child runs and another request
\* waits for the mutex; the other has created no directory yet.
C25_Witness ==
    \E r \in Reqs, q \in Reqs :
        /\ tmp[r] = "exists" /\ pc[r] = "running"
        /\ pc[q] = "waiting" /\ tmp[q] = "none"

\* C26: under fair scheduling, with file operations that come back, every
\* call that is not dropped by its caller returns Ok or Err, every holder
\* releases the mutex and every waiter leaves the queue, whether the child
\* exits, never exits or cannot be spawned; so all concurrent calls complete.
C26_EveryCallReturns ==
    \A r \in Reqs :
        /\ (pc[r] = "lock") ~>
                (\/ pc[r] = "done" /\ result[r].tag # "none"
                 \/ pc[r] = "cancelled")
        /\ (pc[r] \in LockedPcs) ~> (pc[r] \notin LockedPcs /\ r \notin lock_granted)
        /\ (pc[r] = "waiting") ~> (pc[r] # "waiting")

\* Both calls have returned and the mutex is free: one ran into the deadline
\* with its child still running, the other had waited for the mutex and
\* failed with Io (a directory, a write or a spawn that failed).
C26_Witness ==
    \E r \in Reqs, q \in Reqs :
        /\ pc[r] = "done" /\ result[r] = Timeout /\ child[r] = "running"
        /\ pc[q] = "done" /\ result[q] = Io /\ child[q] = "none"
        /\ lock_permits = 1 /\ lock_waiters = << >>

\* The numbers a version string is written from, <<0, 0>> with found FALSE
\* when it is no "major.minor" of the strings tried.
Written(s) ==
    LET pairs == { p \in (0..MaxPart) \X (0..MaxPart) :
                     s = Digits(p[1]) \o <<46>> \o Digits(p[2]) }
    IN  IF pairs = {} THEN [found |-> FALSE, pair |-> <<0, 0>>]
        ELSE [found |-> TRUE, pair |-> CHOOSE p \in pairs : TRUE]

\* The lexicographic order on (major, minor).
Lexicographic(p, q) ==
    IF p[1] < q[1] \/ (p[1] = q[1] /\ p[2] < q[2]) THEN "Less"
    ELSE IF p = q THEN "Equal"
    ELSE "Greater"

Opposite(ord) ==
    IF ord = "Less" THEN "Greater" ELSE IF ord = "Greater" THEN "Less" ELSE ord

\* C27: the order of ProductVersion is a total order, the lexicographic one on
\* (major, minor): two parsed versions compare as their pairs of numbers do,
\* the comparison the other way round gives the opposite, and Equal is only
\* given to equal pairs; so 6.4 > 6.3 > 5.9 and 7.10 > 7.9.
C27_OrderIsLexicographic ==
    (Written(compared.left).found /\ Written(compared.right).found
        /\ compared.ordering # "none") =>
        /\ compared.ordering =
                Lexicographic(Written(compared.left).pair, Written(compared.right).pair)
        /\ compared.reverse = Opposite(compared.ordering)
        /\ (compared.ordering = "Equal" <=> compared.left = compared.right)

\* "7.10" has been compared with "7.9" and found greater.
C27_Witness ==
    /\ compared.left = <<55,46,49,48>>
    /\ compared.right = <<55,46,57>>
    /\ compared.ordering = "Greater"
    /\ compared.reverse = "Less"

HasNul(s) == \E i \in 1..Len(s) : s[i] = 0

\* The part of C28 that holds: a URL that DocUrl::from_path returns starts
\* with file://, holds no NUL, and is that of an absolute path: a relative
\* path was made absolute first, and one that cannot be made absolute (the
\* empty path, no current directory) gives an error.
C28_UrlWellFormed ==
    doc_url.result.tag # "none" =>
        /\ doc_url.result.tag = "Ok" =>
            /\ StartsWith(doc_url.result.url, TxtFileScheme \o <<47>>)
            /\ ~HasNul(doc_url.result.url)
            /\ (~is_absolute(doc_url.path) =>
                    StartsWith(doc_url.result.url, TxtFileScheme \o CurrentDir))
        /\ (~is_absolute(doc_url.path) /\ (doc_url.path = << >> \/ ~doc_url.cwd)) =>
                doc_url.result.tag # "Ok"

\* C28: a URL that DocUrl::from_path returns starts with file:// and holds no
\* NUL; a relative path is made absolute before the URL is built; and a path
\* that cannot be made absolute or that holds a NUL gives an error, never a
\* URL.
C28_NulOrRelativeIsError ==
    /\ C28_UrlWellFormed
    /\ (doc_url.result.tag # "none" /\ HasNul(doc_url.path)) => doc_url.result.tag # "Ok"

\* ---------------------------------------------------------------- C31..C36

IsDirectory(kind) == kind = "dir"

\* The entries of /opt named libreoffice<major>.<minor> that are directories
\* and whose program path passes the test there(_), with their versions.
OptCandidates(opt, there(_)) ==
    IF opt.state # "listed" THEN {}
    ELSE { i \in 1..Len(opt.entries) :
            /\ opt.entries[i].kind = "dir"
            /\ StartsWith(opt.entries[i].name, TxtLibreoffice)
            /\ ProductVersion_from_str(
                    SubSeq(opt.entries[i].name, Len(TxtLibreoffice) + 1,
                           Len(opt.entries[i].name))).ok
            /\ there(opt.entries[i].program) }

\* (major, minor) of an entry named libreoffice<major>.<minor>.
VersionOf(entry) ==
    LET v == ProductVersion_from_str(
                SubSeq(entry.name, Len(TxtLibreoffice) + 1, Len(entry.name))).val
    IN  <<v.major, v.minor>>

\* The stated order of precedence, with there(_) as the test a path has to
\* pass: the variable, the two known paths in order, the greatest version of
\* /opt, None.
InstallPathAsStated(i, there(_)) ==
    LET cands == OptCandidates(i.opt, there)
        greatest == { c \in cands : \A d \in cands :
                        Lexicographic(VersionOf(i.opt.entries[d]), VersionOf(i.opt.entries[c]))
                            # "Greater" }
    IN  IF i.env # "unset" /\ there(i.env) THEN i.result = SomePath("LOK_PROGRAM_PATH", << >>)
        ELSE IF exists(i.known[1]) THEN i.result = SomePath(KNOWN_PATHS[1], << >>)
        ELSE IF exists(i.known[2]) THEN i.result = SomePath(KNOWN_PATHS[2], << >>)
        ELSE IF cands # {}
        THEN \E c \in greatest : i.result = SomePath("/opt", i.opt.entries[c].name)
        ELSE i.result = NoPath

\* C31: find_install_path returns the first match of LOK_PROGRAM_PATH when it
\* names an existing directory, the two known paths in order, and the /opt
\* directory libreoffice<major>.<minor> of the greatest version whose program
\* directory exists; None when there is no match.
C31_InstallPathPrecedence ==
    install.called => InstallPathAsStated(install, IsDirectory)

\* C32: the drop of a Document calls the engine's destroy on the document
\* exactly once and leaves the pointer null, so that no handle ever has the
\* engine's destroy called on it a second time.
C32_DestroyOnceThenNull ==
    \A c \in Callers :
        /\ document[c] = "dropped" => doc_raw[c].this = "null" /\ doc_raw[c].destroys = 1
        /\ doc_raw[c].destroys <= 1

\* The files of request r's directory that the child wrote: those whose
\* contents at the child's exit are the child's.
WrittenByChild(r) ==
    {n \in DOMAIN outdir_at_exit[r] : outdir_at_exit[r][n] = ChildData(n)}

\* C33: the bytes convert returns with Ok are the contents of a file the
\* child wrote, never those of the staged input file document.<from>, for
\* every from and to, from = to included.
C33_OkBytesAreChildOutput ==
    \A r \in Reqs :
        result[r].tag = "Ok" =>
            \E n \in WrittenByChild(r) : result[r].bytes = ChildData(n)

\* C34: what convert returns is determined by the request and by the contents
\* of the directory when the child has exited, not by the order in which the
\* directory is enumerated: two calls with the same request and the same
\* contents that both return Ok return the same bytes.
C34_ResultIndependentOfEnumeration ==
    \A r, s \in Reqs :
        /\ result[r].tag = "Ok"
        /\ result[s].tag = "Ok"
        /\ input[r] = input[s]
        /\ outdir_at_exit[r] = outdir_at_exit[s]
        => result[r].bytes = result[s].bytes

\* C35: the two mappings of a conversion error to a response agree: for the
\* error a conversion has returned, whatever its variant, the From impl of
\* error.rs gives the status and the body text that the route's
\* create_conversion_error_response gave in the response.
C35_ErrorMappingsAgree ==
    http.stage = "responded" /\ http.outcome.tag \notin {"none", "Ok"} =>
        /\ response_from(http.outcome).status = http.response.status
        /\ response_from(http.outcome).format = http.response.format
        /\ response_from(http.outcome).args = http.response.args
        /\ response_from(http.outcome) = create_conversion_error_response(http.outcome)

C35_Witness ==
    /\ http.stage = "responded"
    /\ http.outcome.tag = "PasswordProtected"
    /\ http.response.status = BAD_REQUEST
    /\ http.response = response_from(http.outcome)

\* C36: the flag is released only by the drop of the last handle to an
\* engine: a drop that leaves a clone behind leaves the flag set, the drop of
\* the last handle clears it; and while a caller holds a handle the flag is
\* set, its engine is alive and no other caller is past the swap of
\* Office::new (which with the flag set returns InstanceLock).
C36_FlagHeldUntilLastHandle ==
    /\ last_drop.caller # 0 => (last_drop.flag <=> last_drop.left > 0)
    /\ \A c \in Callers :
        office_handles[c] >= 1 =>
            /\ GLOBAL_OFFICE_LOCK
            /\ office_raw[c] = "alive"
            /\ \A d \in Callers \ {c} : office_pc[d] \in {"idle", "returned"}

\* A cloned Office one handle of which was dropped: a handle is left, the
\* flag is set, and another caller's Office::new has been turned away.
C36_Witness ==
    \E c \in Callers :
        /\ last_drop = [caller |-> c, left |-> 1, flag |-> TRUE]
        /\ office_handles[c] = 1
        /\ GLOBAL_OFFICE_LOCK
        /\ \E d \in Callers \ {c} : office_result[d].tag = "InstanceLock"

====
